---- MODULE Spec2Model ----
(***************************************************************************)
(* A model of the Tenzik core: the federation event DAG (storage.rs), the  *)
(* gossip message handlers (gossip.rs) and execution receipts              *)
(* (receipts.rs).                                                          *)
(*                                                                         *)
(* Strings produced by hashing, signing and hex-encoding are modelled as   *)
(* free constructors (tagged tuples): BLAKE3 is injective and a signature  *)
(* verifies only under the key that made it, over the payload it signed.   *)
(***************************************************************************)
EXTENDS Integers, Sequences, FiniteSets, TLC

VARIABLES
    dag,      \* replica -> the five sled trees of its EventDAG
    order,    \* replica -> ids in the order events.insert stored them (history)
    last,     \* the last call made and what it returned
    net,      \* gossip messages in flight
    cfg,      \* GossipConfig.max_events_per_sync of the replicas
    gossip,   \* replica -> stats and peers of its GossipProtocol
    sched,    \* whether events are still being produced, and who syncs next
    rcpt,     \* the ExecutionReceipt in hand, and the key that signed it
    runtime,  \* the WasmRuntime: nonce_counter, the receipts emitted, the last result
    sandbox,  \* the SecuritySandbox, the WasmValidator or the capsule in hand, and
              \* the last answers about it
    node,     \* replica -> the sequence counter of its TenzikNode
    round     \* the monotonic clock, and how far the sync round of
              \* sync_with_peers has got

vars == <<dag, order, last, net, cfg, gossip, sched, rcpt, runtime, sandbox, node,
          round>>

(***************************************************************************)
(* Bounds of the model.                                                    *)
(***************************************************************************)
MaxSeq == 2
MaxEvents == 3
MaxBatch == 2
MaxNonce == 2
MaxSyncCfg == 2

Replicas == {"A", "B"}
Keys == {"k1", "k2"}
NONE == <<"none">>

(***************************************************************************)
(* Cryptographic and encoding primitives.                                  *)
(***************************************************************************)
\* blake3::hash(bytes).to_hex().to_string(): 64 lowercase hex characters.
Blake3Hex(bytes) == <<"blake3", bytes>>

\* signing_key.verifying_key()
VerifyingKey(sk) == <<"vk", sk>>

\* hex::encode(bytes) / hex::decode(text)
HexEncode(bytes) == <<"hex", bytes>>
IsHex(text) == text[1] = "hex"
HexDecode(text) == text[2]

\* hex::encode(signing_key.sign(payload).to_bytes()): 128 hex characters.
Sign(sk, payload) == <<"ed25519", VerifyingKey(sk), payload>>
SignatureHex(sk, payload) == HexEncode(Sign(sk, payload))

\* A string that is no digest and no signature: `len` arbitrary characters
\* (`hex` tells whether they are all hex digits).
RawString(len, hex) == <<"raw", len, hex>>

\* String::len()
StrLen(s) ==
    IF s[1] = "blake3" THEN 64
    ELSE IF s[1] = "hex" /\ s[2][1] = "ed25519" THEN 128
    ELSE IF s[1] = "hex" /\ s[2][1] = "vk" THEN 64
    ELSE IF s[1] = "raw" THEN s[2]
    ELSE 0

\* verifying_key.verify(payload, signature).is_ok()
Ed25519Verify(vk, payload, signature) == signature = <<"ed25519", vk, payload>>

\* u64::to_be_bytes / u64::from_be_bytes
RECURSIVE ShiftRightBytes(_, _)
ShiftRightBytes(n, k) == IF k = 0 THEN n ELSE ShiftRightBytes(n \div 256, k - 1)
ToBeBytes(n) == [i \in 1..8 |-> ShiftRightBytes(n, 8 - i) % 256]
RECURSIVE FromBeBytesUpTo(_, _)
FromBeBytesUpTo(bytes, i) ==
    IF i = 0 THEN 0 ELSE 256 * FromBeBytesUpTo(bytes, i - 1) + bytes[i]
FromBeBytes(bytes) == FromBeBytesUpTo(bytes, 8)

\* Timestamps: an RFC 3339 text of instant t, or a text that does not parse.
Rfc3339(t) == <<"rfc3339", t>>
BadTimestamp == <<"text", 0>>
\* chrono::DateTime::parse_from_rfc3339(ts).is_ok()
ParsesRfc3339(ts) == ts[1] = "rfc3339"

(***************************************************************************)
(* Events (storage.rs / events.rs).                                        *)
(***************************************************************************)
\* Event::create_signing_payload
create_signing_payload(event_type, content, parents, sequence, node_id, timestamp) ==
    <<"TENZIK_EVENT_V1", event_type, content, parents, sequence, node_id, timestamp>>

\* Event::new_event with the id taken over the signature instead of the payload.
new_event_id_of_signature(event_type, content, parents, sequence, node_id, signing_key, timestamp) ==
    LET payload == create_signing_payload(event_type, content, parents, sequence, node_id, timestamp)
    IN [id |-> Blake3Hex(Sign(signing_key, payload)), event_type |-> event_type,
        content |-> content, timestamp |-> timestamp, parents |-> parents,
        sequence |-> sequence, node_id |-> node_id,
        signature |-> SignatureHex(signing_key, payload)]

\* Event::new_event
new_event(event_type, content, parents, sequence, node_id, signing_key, timestamp) ==
    LET payload == create_signing_payload(event_type, content, parents, sequence,
                                          node_id, timestamp)
    IN [id         |-> Blake3Hex(payload),
        event_type |-> event_type,
        content    |-> content,
        timestamp  |-> timestamp,
        parents    |-> parents,
        sequence   |-> sequence,
        node_id    |-> node_id,
        signature  |-> SignatureHex(signing_key, payload)]

\* The payload an event's own fields give (the one verify_signature rebuilds).
EventPayload(e) ==
    create_signing_payload(e.event_type, e.content, e.parents, e.sequence,
                           e.node_id, e.timestamp)

\* Event::verify_signature: "Error" for a signature that is no hex or has the
\* wrong length, else whether the signature verifies.
verify_signature(e, vk) ==
    IF ~IsHex(e.signature) \/ StrLen(e.signature) # 128 THEN "Error"
    ELSE IF Ed25519Verify(vk, EventPayload(e), HexDecode(e.signature)) THEN "true"
    ELSE "false"

\* node.rs: the node_id of a node is the hex of its verifying key.
NodeIdOf(sk) == HexEncode(VerifyingKey(sk))

(***************************************************************************)
(* The EventDAG: five sled trees, each a map from keys to values.          *)
(***************************************************************************)
EmptyTree == [k \in {} |-> 0]
TreeInsert(t, k, v) == [x \in (DOMAIN t) \cup {k} |-> IF x = k THEN v ELSE t[x]]
TreeRemove(t, k) == [x \in (DOMAIN t) \ {k} |-> t[x]]

\* EventDAG::new on a fresh db_path
EventDAGNew ==
    [events |-> EmptyTree, parents |-> EmptyTree, children |-> EmptyTree,
     tips |-> EmptyTree, sequences |-> EmptyTree]

\* EventDAG::has_event
has_event(d, id) == id \in DOMAIN d.events

\* EventDAG::get_node_sequence
get_node_sequence(d, node_id) ==
    IF node_id \in DOMAIN d.sequences THEN FromBeBytes(d.sequences[node_id]) ELSE 0

\* EventDAG::validate_event: "Ok" or the reason of the ValidationError.
validate_event_no_timestamp(e) ==
    IF StrLen(e.id) # 64 THEN "id"
    ELSE IF StrLen(e.signature) # 128 THEN "signature"
    ELSE "Ok"

validate_event(e) ==
    IF StrLen(e.id) # 64 THEN "id"
    ELSE IF StrLen(e.signature) # 128 THEN "signature"
    ELSE IF ~ParsesRfc3339(e.timestamp) THEN "timestamp"
    ELSE "Ok"

\* One write to a sled tree (or the flush of the database).
TreeWrite(tree, op, key, val) == [tree |-> tree, op |-> op, key |-> key, val |-> val]

\* The effect of one write that succeeds.
ApplyWrite(d, w) ==
    CASE w.tree = "sequences" -> [d EXCEPT !.sequences = TreeInsert(@, w.key, w.val)]
      [] w.tree = "events"    -> [d EXCEPT !.events = TreeInsert(@, w.key, w.val)]
      [] w.tree = "parents"   -> [d EXCEPT !.parents = TreeInsert(@, w.key, w.val)]
      [] w.tree = "children"  ->
            \* read the list (or an empty one), push the child, write it back
            [d EXCEPT !.children =
                TreeInsert(@, w.key,
                           Append(IF w.key \in DOMAIN @ THEN @[w.key] ELSE <<>>, w.val))]
      [] w.tree = "tips" /\ w.op = "remove" -> [d EXCEPT !.tips = TreeRemove(@, w.key)]
      [] w.tree = "tips" /\ w.op = "insert" -> [d EXCEPT !.tips = TreeInsert(@, w.key, w.val)]
      [] OTHER -> d   \* db.flush(): a durability barrier, no change of content

\* The first n writes of ws applied in order.
RECURSIVE ApplyWrites(_, _, _)
ApplyWrites(d, ws, n) ==
    IF n = 0 THEN d ELSE ApplyWrite(ApplyWrites(d, ws, n - 1), ws[n])

\* EventDAG::update_sequence: the check, and the write it makes when it passes.
update_sequence_lt(d, node_id, sequence) ==
    LET current_sequence == get_node_sequence(d, node_id)
    IN IF sequence < current_sequence
       THEN [ok |-> FALSE, writes |-> <<>>]
       ELSE [ok |-> TRUE,
             writes |-> <<TreeWrite("sequences", "insert", node_id, ToBeBytes(sequence))>>]

\* An update_sequence that writes the sequence of the first event of a node
\* only.
update_sequence_first_only(d, node_id, sequence) ==
    LET current_sequence == get_node_sequence(d, node_id)
    IN IF sequence <= current_sequence
       THEN [ok |-> FALSE, writes |-> <<>>]
       ELSE [ok |-> TRUE,
             writes |-> IF node_id \in DOMAIN d.sequences THEN <<>>
                        ELSE <<TreeWrite("sequences", "insert", node_id, ToBeBytes(sequence))>>]

update_sequence(d, node_id, sequence) ==
    LET current_sequence == get_node_sequence(d, node_id)
    IN IF sequence <= current_sequence
       THEN [ok |-> FALSE, writes |-> <<>>]
       ELSE [ok |-> TRUE,
             writes |-> <<TreeWrite("sequences", "insert", node_id, ToBeBytes(sequence))>>]

\* EventDAG::update_relationships: parents[id], then children[pid] per parent.
update_relationships(e) ==
    <<TreeWrite("parents", "insert", e.id, e.parents)>>
    \o [i \in 1..Len(e.parents) |-> TreeWrite("children", "push", e.parents[i], e.id)]

\* EventDAG::update_tips: remove every parent, then insert the event.
update_tips_keep_parents(e) ==
    <<TreeWrite("tips", "insert", e.id, e.timestamp)>>

update_tips(e) ==
    [i \in 1..Len(e.parents) |-> TreeWrite("tips", "remove", e.parents[i], NONE)]
    \o <<TreeWrite("tips", "insert", e.id, e.timestamp)>>

\* add_event, "Check if event already exists"
already_exists_never(d, e) == FALSE

already_exists(d, e) == has_event(d, e.id)

\* add_event, "Validate parents exist": the positions of the missing parents.
missing_parents_unchecked(d, e) == {}

missing_parents(d, e) == {i \in 1..Len(e.parents) : ~has_event(d, e.parents[i])}

\* An add_event that tracks the sequence before it looks for the parents.
add_event_plan_sequence_first(d, e) ==
    LET v == validate_event(e)
        s == update_sequence(d, e.node_id, e.sequence)
    IN IF v # "Ok" THEN [result |-> "ValidationError", reason |-> v, writes |-> <<>>]
       ELSE IF already_exists(d, e)
            THEN [result |-> "Ok", reason |-> "duplicate", writes |-> <<>>]
       ELSE IF ~s.ok
            THEN [result |-> "ValidationError", reason |-> "sequence", writes |-> <<>>]
       ELSE IF missing_parents(d, e) # {}
            THEN [result |-> "ValidationError", reason |-> "parent", writes |-> s.writes]
       ELSE [result |-> "Ok", reason |-> "stored",
             writes |-> s.writes
                        \o <<TreeWrite("events", "insert", e.id, e)>>
                        \o update_relationships(e)
                        \o update_tips(e)
                        \o <<TreeWrite("db", "flush", NONE, NONE)>>]

\* EventDAG::add_event up to its first write: what the call returns when no
\* storage operation fails, why, and the writes it makes in order.
add_event_plan(d, e) ==
    LET v == validate_event(e)
        s == update_sequence(d, e.node_id, e.sequence)
    IN IF v # "Ok" THEN [result |-> "ValidationError", reason |-> v, writes |-> <<>>]
       ELSE IF already_exists(d, e)
            THEN [result |-> "Ok", reason |-> "duplicate", writes |-> <<>>]
       ELSE IF missing_parents(d, e) # {}
            THEN [result |-> "ValidationError", reason |-> "parent", writes |-> <<>>]
       ELSE IF ~s.ok
            THEN [result |-> "ValidationError", reason |-> "sequence", writes |-> <<>>]
       ELSE [result |-> "Ok", reason |-> "stored",
             writes |-> s.writes
                        \o <<TreeWrite("events", "insert", e.id, e)>>
                        \o update_relationships(e)
                        \o update_tips(e)
                        \o <<TreeWrite("db", "flush", NONE, NONE)>>]

\* EventDAG::add_event when every storage operation succeeds: the DAG after.
add_event(d, e) ==
    LET p == add_event_plan(d, e) IN ApplyWrites(d, p.writes, Len(p.writes))

(***************************************************************************)
(* The events the callers and the peers hand to a replica.                 *)
(***************************************************************************)
Contents == {"c1", "c2"}
Now == Rfc3339(1)

\* An id no event of the model hashes to: a parent that is never stored.
DanglingId == Blake3Hex(<<"unknown">>)

\* Parent lists over the ids stored so far: none, one, two (an id possibly
\* twice); and one naming an event that is not stored.
ParentLists(r) ==
    LET o == order[r]
    IN {<<>>, <<DanglingId>>}
       \cup {<<o[i]>> : i \in 1..Len(o)}
       \cup UNION {{<<o[i], o[j]>> : j \in i..Len(o)} : i \in 1..Len(o)}

\* Events built by Event::new_event and signed by the node they name: roots
\* of either content, and events over the parent lists.
RootEvents ==
    {new_event("Receipt", c, <<>>, s, NodeIdOf(k), k, Now) :
        c \in Contents, s \in 0..MaxSeq, k \in Keys}

HonestEvents(r) ==
    RootEvents
    \cup {new_event("Receipt", "c1", ps, s, NodeIdOf(k), k, Now) :
            ps \in ParentLists(r), s \in 1..MaxSeq, k \in Keys}

OtherKey(k) == CHOOSE x \in Keys : x # k

\* Events that structural validation refuses: an id or a signature of the
\* wrong length, a timestamp that does not parse.
MalformedEvents ==
    {[new_event("Receipt", "c1", <<>>, 1, NodeIdOf(k), k, Now)
        EXCEPT !.id = RawString(10, TRUE)] : k \in Keys}
    \cup {[new_event("Receipt", "c1", <<>>, 1, NodeIdOf(k), k, Now)
            EXCEPT !.signature = RawString(10, TRUE)] : k \in Keys}
    \cup {new_event("Receipt", "c1", <<>>, 1, NodeIdOf(k), k, BadTimestamp) : k \in Keys}

\* Well-formed events that are not what they claim: an id that is the digest
\* of another payload, a signature made by another key, a signature text of
\* the right length that is no hex.
ForgedEvents ==
    {[new_event("Receipt", "c1", <<>>, 1, NodeIdOf(k), k, Now)
        EXCEPT !.id = new_event("Receipt", "c2", <<>>, 1, NodeIdOf(k), k, Now).id] :
        k \in Keys}
    \cup {new_event("Receipt", "c1", <<>>, 1, NodeIdOf(k), OtherKey(k), Now) : k \in Keys}
    \cup {[new_event("Receipt", "c1", <<>>, 1, NodeIdOf(k), k, Now)
            EXCEPT !.signature = RawString(128, FALSE)] : k \in Keys}

\* A stored event resent under a signature or a timestamp that validation refuses.
BrokenCopies(r) ==
    {[dag[r].events[id] EXCEPT !.signature = RawString(10, TRUE)] : id \in DOMAIN dag[r].events}
    \cup {[dag[r].events[id] EXCEPT !.timestamp = BadTimestamp] : id \in DOMAIN dag[r].events}

CallInputs(r) == HonestEvents(r) \cup MalformedEvents \cup BrokenCopies(r)

(***************************************************************************)
(* GossipProtocol (gossip.rs): the message handlers.                       *)
(***************************************************************************)
GossipStatsDefault ==
    [sync_attempts |-> 0, sync_successes |-> 0, sync_failures |-> 0,
     events_sent |-> 0, events_received |-> 0, duplicate_events |-> 0]

\* Option<Instant>: None, or Some(the instant at).
NoInstant == [some |-> FALSE, at |-> 0]
SomeInstant(t) == [some |-> TRUE, at |-> t]

\* GossipProtocol::new: no peer, zeroed statistics, no sync in flight.
GossipProtocolNew ==
    [peers |-> EmptyTree, stats |-> GossipStatsDefault, active_syncs |-> {}]

\* add_peer(address, public_key)
add_peer(g, address, public_key) ==
    [g EXCEPT !.peers =
        TreeInsert(@, address, [public_key |-> public_key, last_sync |-> NoInstant,
                                events_sent |-> 0, events_received |-> 0,
                                is_reachable |-> TRUE])]

SyncMsg(since, limit) == [type |-> "Sync", since |-> since, limit |-> limit]
EventsMsg(events, has_more) == [type |-> "Events", events |-> events, has_more |-> has_more]
AckMsg(count, rejected) == [type |-> "Ack", count |-> count, rejected |-> rejected]
PingMsg(timestamp) == [type |-> "Ping", timestamp |-> timestamp]
PongMsg(ping_timestamp, pong_timestamp) == [type |-> "Pong", ping_timestamp |-> ping_timestamp, pong_timestamp |-> pong_timestamp]

NoReply == [type |-> "None"]

\* The u64 counters of GossipStats and PeerInfo: the model stops counting at
\* MaxCount.
MaxCount == 3
CounterAdd(n, k) == IF n + k <= MaxCount THEN n + k ELSE MaxCount

Min(a, b) == IF a <= b THEN a ELSE b

\* a.timestamp.cmp(&b.timestamp) on the timestamps of stored events.
TimestampLess(a, b) == a.timestamp[2] < b.timestamp[2]

\* events.sort_by(timestamp) over the events tree.  Events of one timestamp
\* keep the order of their keys in the tree, a fixed order the model takes
\* with CHOOSE.
RECURSIVE SortByTimestamp(_)
SortByTimestamp(es) ==
    IF es = {} THEN <<>>
    ELSE LET first == CHOOSE e \in es : \A x \in es : ~TimestampLess(x, e)
         IN <<first>> \o SortByTimestamp(es \ {first})

\* get_events_since(since_event_id): both branches return every stored event,
\* oldest timestamp first.
get_events_since(d, since_event_id) ==
    SortByTimestamp({d.events[id] : id \in DOMAIN d.events})

\* handle_sync_request(from, since, limit)
handle_sync_request(d, max_events_per_sync, since, limit) ==
    LET events == get_events_since(d, since)
        events_to_send == SubSeq(events, 1, Min(Len(events), Min(limit, max_events_per_sync)))
        has_more == Len(events_to_send) >= limit
    IN EventsMsg(events_to_send, has_more)

\* One turn of the loop of handle_events: the event goes to add_event as
\* received; Ok counts as accepted, Err as rejected.
handle_events_body(a, event) ==
    LET p == add_event_plan(a.dag, event)
    IN IF p.result = "Ok"
       THEN [a EXCEPT !.dag = add_event(a.dag, event),
                      !.order = IF p.reason = "stored" THEN Append(@, event.id) ELSE @,
                      !.accepted = @ + 1,
                      !.stats.events_received = CounterAdd(@, 1)]
       ELSE [a EXCEPT !.dag = add_event(a.dag, event),
                      !.rejected = Append(@, event.id),
                      !.stats.duplicate_events = CounterAdd(@, 1)]

\* The loop over events[1..i].  (The state after the turns before is bound
\* once, by the set, for the turn that follows.)
RECURSIVE handle_events_loop(_, _, _)
handle_events_loop(start, events, i) ==
    IF i = 0 THEN start
    ELSE CHOOSE after \in {handle_events_body(a, events[i]) :
                              a \in {handle_events_loop(start, events, i - 1)}} : TRUE

\* handle_events(from, events, _has_more): the loop, the statistics of the
\* sending peer if it is a known one, the Ack in reply.
handle_events(d, o, g, from, events) ==
    LET a == handle_events_loop([dag |-> d, order |-> o, accepted |-> 0,
                                 rejected |-> <<>>, stats |-> g.stats],
                                events, Len(events))
        peers == IF from \in DOMAIN g.peers
                 THEN [g.peers EXCEPT ![from].events_received = CounterAdd(@, a.accepted)]
                 ELSE g.peers
    IN [dag |-> a.dag, order |-> a.order,
        gossip |-> [g EXCEPT !.peers = peers, !.stats = a.stats],
        reply |-> AckMsg(a.accepted, a.rejected)]

\* A handle_ack that acknowledges the Ack.
handle_ack_acknowledging(g, from, count, rejected) ==
    [gossip |-> g, reply |-> AckMsg(0, <<>>)]

\* handle_ack(from, count, rejected): nothing is updated, nothing is answered.
handle_ack(g, from, count, rejected) == [gossip |-> g, reply |-> NoReply]

\* A handle_ping that answers with its own clock in both fields.
handle_ping_echoing_clock(g, from, timestamp, now) ==
    [gossip |-> g, reply |-> PongMsg(now, now)]

\* handle_ping(from, timestamp): the Pong carries the timestamp of the Ping and
\* the reading of the system clock; self is not written.
handle_ping(g, from, timestamp, now) ==
    [gossip |-> g, reply |-> PongMsg(timestamp, now)]

\* A handle_pong that enters an unknown sender in the peer table.
handle_pong_creating_peer(g, from, ping_timestamp, pong_timestamp) ==
    [gossip |-> IF from \in DOMAIN g.peers
                THEN [g EXCEPT !.peers[from].is_reachable = TRUE]
                ELSE add_peer(g, from, ""),
     reply |-> NoReply]

\* handle_pong(from, ping_timestamp, pong_timestamp): a sender that is in the
\* peer table is marked reachable; nothing is answered.
handle_pong(g, from, ping_timestamp, pong_timestamp) ==
    [gossip |-> IF from \in DOMAIN g.peers
                THEN [g EXCEPT !.peers[from].is_reachable = TRUE] ELSE g,
     reply |-> NoReply]

\* handle_message(from, message) at a replica holding d, o, g, the system
\* clock reading now: the state it leaves and the reply (NoReply when the
\* handler returns Ok(None)).
handle_message(d, o, g, max_events_per_sync, from, message, now) ==
    CASE message.type = "Sync" ->
            [dag |-> d, order |-> o, gossip |-> g,
             reply |-> handle_sync_request(d, max_events_per_sync, message.since, message.limit)]
      [] message.type = "Events" -> handle_events(d, o, g, from, message.events)
      [] message.type = "Ack" ->
            LET h == handle_ack(g, from, message.count, message.rejected)
            IN [dag |-> d, order |-> o, gossip |-> h.gossip, reply |-> h.reply]
      [] message.type = "Ping" ->
            LET h == handle_ping(g, from, message.timestamp, now)
            IN [dag |-> d, order |-> o, gossip |-> h.gossip, reply |-> h.reply]
      [] message.type = "Pong" ->
            LET h == handle_pong(g, from, message.ping_timestamp, message.pong_timestamp)
            IN [dag |-> d, order |-> o, gossip |-> h.gossip, reply |-> h.reply]

(***************************************************************************)
(* ExecutionReceipt (receipts.rs).                                         *)
(***************************************************************************)
\* format!("{:.3}", memory_mb): the text of the value rounded to three
\* decimals.  memory_mb is counted in ten-thousandths of a megabyte.
FormatFixed3(memory) == <<"fixed3", (memory + 5) \div 10>>

\* ExecutionReceipt::create_signature_payload with no timestamp line.
create_signature_payload_without_timestamp(capsule_id, input_commit, output_commit, metrics, node_id, nonce, timestamp) ==
    <<"TENZIK_RECEIPT_V1", capsule_id, input_commit, output_commit,
      metrics.fuel_used, FormatFixed3(metrics.memory_mb), metrics.duration_ms,
      metrics.host_function_calls, node_id, nonce>>

\* ExecutionReceipt::create_signature_payload
create_signature_payload(capsule_id, input_commit, output_commit, metrics, node_id, nonce, timestamp) ==
    <<"TENZIK_RECEIPT_V1", capsule_id, input_commit, output_commit,
      metrics.fuel_used, FormatFixed3(metrics.memory_mb), metrics.duration_ms,
      metrics.host_function_calls, node_id, nonce, timestamp>>

\* ExecutionReceipt::new, at the time current_timestamp_iso8601 returns.
ExecutionReceipt_new_unsigned_nonce(capsule_bytes, input_bytes, output_bytes, metrics, signing_key, nonce, timestamp) ==
    LET node_id == NodeIdOf(signing_key)
        payload == create_signature_payload(Blake3Hex(capsule_bytes), Blake3Hex(input_bytes),
                                            Blake3Hex(output_bytes), metrics, node_id,
                                            0, timestamp)
    IN [capsule_id |-> Blake3Hex(capsule_bytes), input_commit |-> Blake3Hex(input_bytes),
        output_commit |-> Blake3Hex(output_bytes), exec_metrics |-> metrics,
        node_id |-> node_id, nonce |-> nonce,
        signature |-> SignatureHex(signing_key, payload),
        timestamp |-> timestamp, version |-> "1.0.0"]

ExecutionReceipt_new(capsule_bytes, input_bytes, output_bytes, metrics, signing_key, nonce, timestamp) ==
    LET capsule_id == Blake3Hex(capsule_bytes)
        input_commit == Blake3Hex(input_bytes)
        output_commit == Blake3Hex(output_bytes)
        node_id == NodeIdOf(signing_key)
        payload == create_signature_payload(capsule_id, input_commit, output_commit,
                                            metrics, node_id, nonce, timestamp)
    IN [capsule_id |-> capsule_id, input_commit |-> input_commit,
        output_commit |-> output_commit, exec_metrics |-> metrics,
        node_id |-> node_id, nonce |-> nonce,
        signature |-> SignatureHex(signing_key, payload),
        timestamp |-> timestamp, version |-> "1.0.0"]

\* ExecutionReceipt::verify: Ok(true), Ok(false), or the error of a signature
\* text that is no hex or not 64 bytes.
verify(r, verifying_key) ==
    LET payload == create_signature_payload(r.capsule_id, r.input_commit, r.output_commit,
                                            r.exec_metrics, r.node_id, r.nonce, r.timestamp)
    IN IF ~IsHex(r.signature) THEN "InvalidFormat"
       ELSE IF StrLen(r.signature) # 128 THEN "CryptographicError"
       ELSE IF Ed25519Verify(verifying_key, payload, HexDecode(r.signature))
            THEN "Ok(true)" ELSE "Ok(false)"

\* ExecutionReceipt::verify_node_signature
verify_node_signature(r) ==
    IF ~IsHex(r.node_id) \/ StrLen(r.node_id) # 64 THEN "InvalidFormat"
    ELSE verify(r, HexDecode(r.node_id))

NoReceipt == [phase |-> "none"]

(***************************************************************************)
(* The runtime (execution.rs, validation.rs, sandbox.rs).                  *)
(***************************************************************************)
\* WasmRuntime::with_config: nonce_counter starts at 1.  `emitted` is the
\* history of the nonces of the receipts returned.
MAX_IO_SIZE == 1024 * 1024
RuntimeConfigDefault == [enable_fuel |-> TRUE, max_io_size |-> MAX_IO_SIZE]
NoResult == [kind |-> "none", source |-> [kind |-> "", size |-> 0, max_size |-> 0, export |-> "", import |-> [prefix |-> "", rest |-> ""]], timeout_ms |-> 0, reason |-> "", nonce |-> 0]
\* What the run step of the last execute call did: the behaviour of the
\* capsule's run, what call_async came back with ("Deadline" when the
\* timeout won), and the deadline of the call.  run = "" when the call ended
\* before the run step.
NoStep == [run |-> "", outcome |-> "", execution_time_ms |-> 0]
WasmRuntime_with_config(signing_key, config) ==
    [config |-> config, signing_key |-> signing_key, nonce_counter |-> 1,
     emitted |-> <<>>, result |-> NoResult, step |-> NoStep]
WasmRuntimeNew == WasmRuntime_with_config("k1", RuntimeConfigDefault)

NoSandbox == [phase |-> "none"]

(***************************************************************************)
(* State.                                                                  *)
(***************************************************************************)
\* TenzikNode::new: the sequence counter starts at 1.
TenzikNodeNew == [sequence |-> 1]

\* The part of GossipConfig that sync_with_peers reads, in ticks of the model's
\* clock, and the state before any sync round: the clock at 0, no round
\* running.
SyncConfig(sync_interval_ms, max_concurrent_syncs) ==
    [sync_interval_ms |-> sync_interval_ms, max_concurrent_syncs |-> max_concurrent_syncs]

NoRound ==
    [now |-> 0, config |-> SyncConfig(1, 2), phase |-> "idle", selected |-> <<>>,
     queue |-> <<>>, started |-> <<>>]

Idle == [op |-> "none", phase |-> "idle", to |-> "A", arg |-> NONE,
         result |-> "none", reason |-> "none"]

InitCommon ==
    /\ dag = [r \in Replicas |-> EventDAGNew]
    /\ order = [r \in Replicas |-> <<>>]
    /\ last = Idle
    /\ net = <<>>
    /\ cfg = MaxSyncCfg
    /\ gossip = [r \in Replicas |-> GossipProtocolNew]
    /\ sched = [mode |-> "build", turn |-> "A"]
    /\ rcpt = NoReceipt
    /\ runtime = WasmRuntimeNew
    /\ sandbox = NoSandbox
    /\ node = [r \in Replicas |-> TenzikNodeNew]
    /\ round = NoRound

Init == InitCommon

Stored(r) == DOMAIN dag[r].events

\* A call that stores an event is made only below the bound on the store.
WithinBound(r, e) ==
    add_event_plan(dag[r], e).reason = "stored" => Cardinality(Stored(r)) < MaxEvents

(***************************************************************************)
(* EventDAG::add_event called directly (TenzikNode::add_event, the tests). *)
(***************************************************************************)
\* The caller hands event e to replica r.
AddEventCall(r, e) ==
    /\ last.phase = "idle"
    /\ WithinBound(r, e)
    /\ last' = [op |-> "add_event", phase |-> "call", to |-> r, arg |-> e,
                result |-> "none", reason |-> "none"]
    /\ UNCHANGED <<dag, order, net, cfg, gossip, sched, rcpt, runtime, sandbox, node, round>>

\* add_event runs to its end, no storage operation failing.
AddEventRun ==
    /\ last.phase = "call" /\ last.op = "add_event"
    /\ LET r == last.to
           e == last.arg
           p == add_event_plan(dag[r], e)
       IN /\ dag' = [dag EXCEPT ![r] = add_event(@, e)]
          /\ order' = [order EXCEPT ![r] = IF p.reason = "stored" THEN Append(@, e.id) ELSE @]
          /\ last' = [last EXCEPT !.phase = "done", !.result = p.result,
                                   !.reason = p.reason]
    /\ UNCHANGED <<net, cfg, gossip, sched, rcpt, runtime, sandbox, node, round>>

\* The caller has taken the result.
Return ==
    /\ last.phase = "done"
    /\ last' = Idle
    /\ UNCHANGED <<dag, order, net, cfg, gossip, sched, rcpt, runtime, sandbox, node, round>>

Next ==
    \/ \E e \in CallInputs("A") : AddEventCall("A", e)
    \/ AddEventRun
    \/ Return

Spec == Init /\ [][Next]_vars

(***************************************************************************)
(* What the stored events say, read from the events tree alone.            *)
(***************************************************************************)
EventOf(r, id) == dag[r].events[id]
ParentSet(e) == {e.parents[i] : i \in 1..Len(e.parents)}

\* The stored events no stored event lists as a parent.
Childless(r) ==
    {id \in Stored(r) : \A c \in Stored(r) : id \notin ParentSet(EventOf(r, c))}

\* The largest sequence among the stored events of a node, 0 when it has none.
MaxStoredSequence(d, node_id) ==
    LET ss == {d.events[id].sequence : id \in {x \in DOMAIN d.events : d.events[x].node_id = node_id}}
    IN IF ss = {} THEN 0 ELSE CHOOSE m \in ss : \A x \in ss : x <= m

\* The step in which add_event runs on the event handed in.
AddEventStep == last.phase = "call" /\ last.op = "add_event" /\ last'.phase = "done"

\* C1: the tips tree holds exactly the ids of the stored events that no stored
\* event lists as a parent.
C1_TipsAreChildless == \A r \in Replicas : DOMAIN dag[r].tips = Childless(r)

\* C1, scenario S5: E1 (no parent, sequence 1) then E2 (parent E1, sequence 2,
\* same node) are stored, and E2 is the only tip.
C1_Witness ==
    /\ Len(order["A"]) = 2
    /\ LET e1 == EventOf("A", order["A"][1])
           e2 == EventOf("A", order["A"][2])
       IN /\ e1.parents = <<>> /\ e1.sequence = 1
          /\ e2.parents = <<e1.id>> /\ e2.sequence = 2 /\ e2.node_id = e1.node_id
          /\ DOMAIN dag["A"].tips = {e2.id}

\* The stored events of replica r in insertion order.
InsertedEvent(r, i) == EventOf(r, order[r][i])

\* C2: per node the sequences of the stored events increase strictly in
\* insertion order, and add_event refuses (storing nothing) any event not yet
\* stored whose sequence is at most the node's largest stored sequence.
C2_SequencesIncrease ==
    /\ [](\A r \in Replicas : \A i, j \in 1..Len(order[r]) :
            (i < j /\ InsertedEvent(r, i).node_id = InsertedEvent(r, j).node_id)
                => InsertedEvent(r, i).sequence < InsertedEvent(r, j).sequence)
    /\ [][(/\ AddEventStep
           /\ last.arg.id \notin Stored(last.to)
           /\ last.arg.sequence <= MaxStoredSequence(dag[last.to], last.arg.node_id))
          => (/\ last'.result = "ValidationError"
              /\ dag' = dag)]_vars

\* C2: an event of a node that already stores sequence 2 was handed in with
\* sequence 1 and refused, and two events of one node are stored in order.
C2_Witness ==
    /\ last.phase = "done" /\ last.op = "add_event"
    /\ last.reason = "sequence" /\ last.arg.sequence = 1
    /\ MaxStoredSequence(dag["A"], last.arg.node_id) = 2
    /\ \E i, j \in 1..Len(order["A"]) :
         i < j /\ InsertedEvent("A", i).node_id = InsertedEvent("A", j).node_id

\* C4: every parent of a stored event is a stored event inserted strictly
\* earlier, so no stored event is among its own ancestors.
RECURSIVE AncestorsWithin(_, _, _)
AncestorsWithin(r, ids, n) ==
    IF n = 0 THEN ids
    ELSE LET up == UNION {ParentSet(EventOf(r, id)) : id \in ids \cap Stored(r)}
         IN AncestorsWithin(r, ids \cup up, n - 1)
Ancestors(r, id) ==
    AncestorsWithin(r, ParentSet(EventOf(r, id)), Cardinality(Stored(r)))

C4_ParentsStoredEarlier ==
    \A r \in Replicas :
        /\ \A i \in 1..Len(order[r]) :
             \A p \in ParentSet(InsertedEvent(r, i)) :
                \E j \in 1..(i - 1) : order[r][j] = p
        /\ \A id \in Stored(r) : id \notin Ancestors(r, id)

\* C4: an event with two different parents is stored, and an event naming a
\* parent that is not stored was refused.
C4_Witness ==
    /\ \E id \in Stored("A") : Cardinality(ParentSet(EventOf("A", id))) = 2
    /\ last.phase = "done" /\ last.reason = "parent"
    /\ last.arg.id \notin Stored("A")

\* Structural validity as the specification words it: a 64-character id, a
\* 128-character signature, a timestamp that parses as RFC 3339.
StructurallyValid(e) ==
    StrLen(e.id) = 64 /\ StrLen(e.signature) = 128 /\ ParsesRfc3339(e.timestamp)

\* C3 as claimed: add_event of any event whose id is already stored returns
\* success and leaves the five trees as they were.
C3_StoredIdReturnsSuccess ==
    [][(AddEventStep /\ last.arg.id \in Stored(last.to))
        => (last'.result = "Ok" /\ dag' = dag)]_vars

\* C3, amended: add_event of a structurally valid event whose id is already
\* stored returns success, one that is not structurally valid returns
\* ValidationError, both leaving the five trees as they were; and add_event(e)
\* applied twice leaves the DAG as applied once.
C3_Idempotent ==
    /\ [][(AddEventStep /\ last.arg.id \in Stored(last.to))
            => (/\ dag' = dag
                /\ last'.result = IF StructurallyValid(last.arg)
                                  THEN "Ok" ELSE "ValidationError")]_vars
    /\ [](last.phase = "call" /\ last.op = "add_event"
            => LET once == add_event(dag[last.to], last.arg)
               IN add_event(once, last.arg) = once)

\* C3: the stored event itself was handed in again and add_event returned Ok.
C3_Witness ==
    /\ last.phase = "done" /\ last.op = "add_event"
    /\ last.result = "Ok" /\ last.reason = "duplicate"
    /\ last.arg.id \in Stored("A") /\ EventOf("A", last.arg.id) = last.arg
    /\ Len(order["A"]) >= 2

\* C7: an add_event call refused by structural validation, for a missing
\* parent or for a sequence that does not increase returns ValidationError and
\* changes none of the five trees.
C7_RejectionChangesNothing ==
    [][AddEventStep =>
        LET e == last.arg
            d == dag[last.to]
            refused ==
                \/ ~StructurallyValid(e)
                \/ /\ e.id \notin DOMAIN d.events
                   /\ \/ ~(ParentSet(e) \subseteq DOMAIN d.events)
                      \/ e.sequence <= MaxStoredSequence(d, e.node_id)
        IN refused => (last'.result = "ValidationError" /\ dag' = dag /\ order' = order)]_vars

\* C7, scenario S6: E1 (sequence 1, node N) is stored, E1' (sequence 1, node N,
\* another content) was handed in and refused for its sequence, and the DAG
\* still holds only E1.
C7_Witness ==
    /\ last.phase = "done" /\ last.op = "add_event"
    /\ last.result = "ValidationError" /\ last.reason = "sequence"
    /\ Len(order["A"]) = 1
    /\ LET e1 == InsertedEvent("A", 1)
       IN /\ e1.sequence = 1 /\ last.arg.sequence = 1
          /\ last.arg.node_id = e1.node_id /\ last.arg.content # e1.content
          /\ Stored("A") = {e1.id}

(***************************************************************************)
(* add_event with a storage operation that fails.  The writes are made one *)
(* by one on separate trees, outside any transaction: when the k-th write  *)
(* returns a sled error, `?` returns DatabaseError and the k - 1 writes    *)
(* before it stay.                                                         *)
(***************************************************************************)
AddEventStorageError(k) ==
    /\ last.phase = "call" /\ last.op = "add_event"
    /\ LET r == last.to
           e == last.arg
           p == add_event_plan(dag[r], e)
       IN /\ p.reason = "stored"
          /\ k \in 1..Len(p.writes)
          /\ dag' = [dag EXCEPT ![r] = ApplyWrites(@, p.writes, k - 1)]
          /\ order' = [order EXCEPT ![r] =
                          IF has_event(dag'[r], e.id) THEN Append(@, e.id) ELSE @]
          /\ last' = [last EXCEPT !.phase = "done", !.result = "DatabaseError",
                                   !.reason = p.writes[k].tree]
    /\ UNCHANGED <<net, cfg, gossip, sched, rcpt, runtime, sandbox, node, round>>

\* The most writes one add_event makes: sequences, events, parents, a child
\* and a tip removal per parent, the tip, the flush.
MaxWrites == 9

\* Calls under storage errors: events built by new_event by either node, with
\* no parent or one stored parent.
FaultInputs(r) ==
    {new_event("Receipt", "c1", ps, s, NodeIdOf(k), k, Now) :
        ps \in {<<>>} \cup {<<order[r][i]>> : i \in 1..Len(order[r])},
        s \in 1..MaxSeq, k \in Keys}

NextFault ==
    \/ \E e \in FaultInputs("A") : AddEventCall("A", e)
    \/ AddEventRun
    \/ \E k \in 1..MaxWrites : AddEventStorageError(k)
    \/ Return

SpecFault == Init /\ [][NextFault]_vars

\* C6 as claimed: when add_event returns an error, none of the five trees has
\* changed.
C6_ErrorChangesNothing ==
    [][(AddEventStep /\ last'.result # "Ok") => dag' = dag]_vars

\* C6: add_event returned DatabaseError at the write of the event and the
\* sequence of the node is advanced although the event is not stored.
C6_Witness ==
    /\ last.phase = "done" /\ last.result = "DatabaseError" /\ last.reason = "events"
    /\ last.arg.id \notin Stored("A")
    /\ get_node_sequence(dag["A"], last.arg.node_id) = last.arg.sequence

(***************************************************************************)
(* A replica receiving gossip messages.                                    *)
(***************************************************************************)
OtherReplica(r) == CHOOSE x \in Replicas : x # r

Envelope(from, to, msg) == [from |-> from, to |-> to, msg |-> msg]

\* GossipProtocol::add_peer called on replica r.
AddPeer(r, address, public_key) ==
    /\ sched.mode = "build"
    /\ address \notin DOMAIN gossip[r].peers
    /\ gossip' = [gossip EXCEPT ![r] = add_peer(@, address, public_key)]
    /\ UNCHANGED <<dag, order, last, net, cfg, sched, rcpt, runtime, sandbox, node, round>>

\* The readings of the system clock a handler can see: handle_ping is the one
\* handler whose result depends on it.
ClockReadings(msg) == IF msg.type = "Ping" THEN 1..2 ELSE {0}

\* handle_message on the replica the message in flight is addressed to; its
\* reply, if any, travels back.  An exchange ends with the Ack handled, and
\* the other replica is the next to ask.
Deliver ==
    /\ net # <<>>
    /\ net[1].to \in Replicas
    /\ LET m == net[1]
           r == m.to
       IN \E now \in ClockReadings(m.msg) :
          \E h \in {handle_message(dag[r], order[r], gossip[r], cfg, m.from, m.msg, now)} :
          /\ dag' = [dag EXCEPT ![r] = h.dag]
          /\ order' = [order EXCEPT ![r] = h.order]
          /\ gossip' = [gossip EXCEPT ![r] = h.gossip]
          /\ net' = IF h.reply.type = "None" THEN <<>> ELSE <<Envelope(r, m.from, h.reply)>>
          /\ sched' = IF m.msg.type = "Ack"
                      THEN [sched EXCEPT !.turn = OtherReplica(@)] ELSE sched
    /\ UNCHANGED <<last, cfg, rcpt, runtime, sandbox, node, round>>

\* A peer outside the model's replicas: any sender of Events messages.
PeerAddr == "P"

\* Events another node signs under the id of an event the replica stores.
StolenIds(r) ==
    {[new_event("Receipt", "c1", <<>>, 1, NodeIdOf("k2"), "k2", Now) EXCEPT !.id = id] :
        id \in DOMAIN dag[r].events}

\* What such a peer sends: events built by new_event (roots, and children of
\* stored events), forged ones, malformed ones, and events under stored ids.
PeerEvents(r) ==
    {new_event("Receipt", c, <<>>, s, NodeIdOf("k1"), "k1", Now) :
        c \in Contents, s \in 1..MaxSeq}
    \cup {new_event("Receipt", "c1", <<order[r][i]>>, MaxSeq, NodeIdOf("k1"), "k1", Now) :
            i \in 1..Len(order[r])}
    \cup ForgedEvents
    \cup MalformedEvents
    \cup StolenIds(r)

PeerBatches(r) ==
    UNION {[1..n -> PeerEvents(r)] : n \in 1..MaxBatch}

\* The outside peer sends a replica no more events than its counters count.
MaxReceived == MaxCount

Received(r) == gossip[r].stats.events_received + gossip[r].stats.duplicate_events

\* The outside peer sends an Events message to replica r.
PeerSend(r, events) ==
    /\ net = <<>>
    /\ Received(r) + Len(events) <= MaxReceived
    /\ net' = <<Envelope(PeerAddr, r, EventsMsg(events, FALSE))>>
    /\ UNCHANGED <<dag, order, last, cfg, gossip, sched, rcpt, runtime, sandbox, node, round>>

\* The outside peer takes the reply addressed to it.
PeerTake ==
    /\ net # <<>>
    /\ net[1].to \notin Replicas
    /\ net' = <<>>
    /\ UNCHANGED <<dag, order, last, cfg, gossip, sched, rcpt, runtime, sandbox, node, round>>

NextPeer ==
    \/ AddPeer("A", PeerAddr, NodeIdOf("k1"))
    \/ \E events \in PeerBatches("A") : PeerSend("A", events)
    \/ Deliver
    \/ PeerTake

SpecPeer == Init /\ [][NextPeer]_vars

HandleEventsStep ==
    /\ net # <<>> /\ net[1].to \in Replicas /\ net[1].msg.type = "Events"
    /\ net' # net

\* C8 as claimed: the id of every stored event is the BLAKE3 hex digest of the
\* signing payload of its own fields, events received through handle_events
\* included.
C8_IdIsDigestOfPayload ==
    \A r \in Replicas : \A id \in Stored(r) :
        /\ EventOf(r, id).id = id
        /\ id = Blake3Hex(EventPayload(EventOf(r, id)))

\* C9 as claimed: every event that handle_events stores carries a signature
\* that verifies, under the key its node_id names, over its signing payload.
C9_VerifiedBeforeInsert ==
    [][HandleEventsStep =>
        LET r == net[1].to
        IN \A id \in DOMAIN dag'[r].events \ DOMAIN dag[r].events :
              LET e == dag'[r].events[id]
              IN verify_signature(e, HexDecode(e.node_id)) = "true"]_vars

(***************************************************************************)
(* Two replicas gossiping.  Events are produced first (each replica signs  *)
(* its own, or is handed a copy of one the other stores); then the         *)
(* replicas take turns at Sync -> Events -> Ack exchanges.                 *)
(***************************************************************************)
KeyOf(r) == IF r = "A" THEN "k1" ELSE "k2"

\* The clock of the events produced: every new event is stamped later than
\* the events stored so far.
ClockNow == Rfc3339(Cardinality(Stored("A") \cup Stored("B")) + 1)

\* What replica r is handed while events are produced: an event it signs
\* now, with no parent or its last stored event as parent, and copies of the
\* events the other replica stores.
GossipInputs(r) ==
    {new_event("Receipt", "c1", ps, s, NodeIdOf(KeyOf(r)), KeyOf(r), ClockNow) :
        ps \in {<<>>} \cup {<<order[r][i]>> : i \in {Len(order[r])} \ {0}},
        s \in 1..MaxSeq}
    \cup {EventOf(OtherReplica(r), id) : id \in Stored(OtherReplica(r))}

Connected == \A r \in Replicas : OtherReplica(r) \in DOMAIN gossip[r].peers

Produce(r, e) ==
    /\ sched.mode = "build"
    /\ Connected
    /\ AddEventCall(r, e)

\* Production ends; from here on the stores change by gossip only.
StartGossip ==
    /\ sched.mode = "build"
    /\ Connected
    /\ last.phase = "idle"
    /\ sched' = [sched EXCEPT !.mode = "gossip"]
    /\ UNCHANGED <<dag, order, last, net, cfg, gossip, rcpt, runtime, sandbox, node, round>>

\* The limit a requester puts in its Sync: room for every event of a store.
SyncLimit == 2 * MaxEvents

\* Option<String> values for Sync.since: None, or one of the requester's tips.
SinceChoices(r) == {NONE} \cup {<<"some", id>> : id \in DOMAIN dag[r].tips}

\* Replica x, whose turn it is, sends Sync to the other replica.
SendSync(x, since) ==
    /\ sched.mode = "gossip"
    /\ sched.turn = x
    /\ net = <<>>
    /\ net' = <<Envelope(x, OtherReplica(x), SyncMsg(since, SyncLimit))>>
    /\ UNCHANGED <<dag, order, last, cfg, gossip, sched, rcpt, runtime, sandbox, node, round>>

\* The replicas learn of each other before events are produced.
ConnectPeer(r) ==
    /\ AddPeer(r, OtherReplica(r), NodeIdOf(KeyOf(OtherReplica(r))))

GossipRound ==
    \/ \E x \in Replicas : \E since \in SinceChoices(x) : SendSync(x, since)
    \/ Deliver

NextGossip ==
    \/ \E r \in Replicas : \E e \in GossipInputs(r) : Produce(r, e)
    \/ AddEventRun
    \/ Return
    \/ \E r \in Replicas : ConnectPeer(r)
    \/ StartGossip
    \/ GossipRound

\* Rounds keep being exchanged and every message is delivered.
SpecGossip == Init /\ [][NextGossip]_vars /\ WF_vars(GossipRound)

Overlapping == Stored("A") \cap Stored("B") # {}

Converged ==
    /\ dag["A"].events = dag["B"].events
    /\ DOMAIN dag["A"].tips = DOMAIN dag["B"].tips

\* C5 as claimed: two replicas whose stores overlap, exchanging rounds with
\* every message delivered, come to hold the same events and the same tips.
C5_GossipConverges ==
    (sched.mode = "gossip" /\ Overlapping) ~> Converged

(***************************************************************************)
(* Receipts: one is built, then verified by whoever holds it.              *)
(***************************************************************************)
Bytes == {"b1", "b2"}

\* ExecMetrics values; memory_mb in ten-thousandths of a megabyte.
MetricsValues ==
    {[fuel_used |-> f, memory_mb |-> m, duration_ms |-> 1, host_function_calls |-> 0] :
        f \in {0, 1}, m \in {0, 12, 14, 20}}

\* ExecutionReceipt::new returns a receipt.
NewReceipt(capsule, input, output, metrics, key, nonce, timestamp) ==
    /\ rcpt.phase = "none"
    /\ rcpt' = [phase |-> "held",
                receipt |-> ExecutionReceipt_new(capsule, input, output, metrics,
                                                 key, nonce, timestamp),
                signer |-> key,
                results |-> EmptyTree]
    /\ UNCHANGED <<dag, order, last, net, cfg, gossip, sched, runtime, sandbox, node, round>>

\* receipt.verify(&verifying_key) with the public key of `key`.
VerifyReceipt(key) ==
    /\ rcpt.phase = "held"
    /\ <<"verify", key>> \notin DOMAIN rcpt.results
    /\ rcpt' = [rcpt EXCEPT !.results =
                   TreeInsert(@, <<"verify", key>>, verify(rcpt.receipt, VerifyingKey(key)))]
    /\ UNCHANGED <<dag, order, last, net, cfg, gossip, sched, runtime, sandbox, node, round>>

\* receipt.verify_node_signature()
VerifyNodeSignature ==
    /\ rcpt.phase = "held"
    /\ <<"verify_node_signature", "-">> \notin DOMAIN rcpt.results
    /\ rcpt' = [rcpt EXCEPT !.results =
                   TreeInsert(@, <<"verify_node_signature", "-">>,
                              verify_node_signature(rcpt.receipt))]
    /\ UNCHANGED <<dag, order, last, net, cfg, gossip, sched, runtime, sandbox, node, round>>

\* The receipt is let go.
DropReceipt ==
    /\ rcpt.phase = "held"
    /\ rcpt' = NoReceipt
    /\ UNCHANGED <<dag, order, last, net, cfg, gossip, sched, runtime, sandbox, node, round>>

NextReceipt ==
    \/ \E capsule \in Bytes, input \in Bytes, output \in Bytes, metrics \in MetricsValues,
          key \in Keys, nonce \in 0..MaxNonce :
          NewReceipt(capsule, input, output, metrics, key, nonce, Now)
    \/ \E key \in Keys : VerifyReceipt(key)
    \/ VerifyNodeSignature
    \/ DropReceipt

SpecReceipt == Init /\ [][NextReceipt]_vars

\* C10: a receipt built by ExecutionReceipt::new verifies with the public key
\* of its signer (verify and verify_node_signature return Ok(true)), and
\* verify with another key returns Ok(false), not an error.
C10_ReceiptVerifies ==
    rcpt.phase = "held" =>
        \A check \in DOMAIN rcpt.results :
            rcpt.results[check] =
                IF check[1] = "verify" /\ check[2] # rcpt.signer
                THEN "Ok(false)" ELSE "Ok(true)"

\* C10: a receipt with a nonce above zero and a memory figure that is rounded
\* has been checked all three ways.
C10_Witness ==
    /\ rcpt.phase = "held"
    /\ rcpt.receipt.nonce = MaxNonce
    /\ rcpt.receipt.exec_metrics.memory_mb = 14
    /\ DOMAIN rcpt.results =
          {<<"verify", k>> : k \in Keys} \cup {<<"verify_node_signature", "-">>}
    /\ rcpt.results[<<"verify", rcpt.signer>>] = "Ok(true)"
    /\ rcpt.results[<<"verify", OtherKey(rcpt.signer)>>] = "Ok(false)"
    /\ rcpt.results[<<"verify_node_signature", "-">>] = "Ok(true)"

(***************************************************************************)
(* Receipt ids.  A String is either one of the hex texts built above (a    *)
(* token that holds no ':') or a text given character by character.        *)
(***************************************************************************)
Text(chars) == <<"text", chars>>

\* The characters format!("{}", field) writes.
Display(field) ==
    IF field[1] = "text" THEN [n \in 1..Len(field[2]) |-> [char |-> field[2][n]]]
    ELSE <<[hex |-> field]>>

Colon == <<[char |-> ":"]>>

\* format!("{}", n) for a number.
DisplayNumber(n) == <<[number |-> n]>>

\* ExecutionReceipt::receipt_id: BLAKE3 of the five fields joined by ':'.
receipt_id_with_timestamp(r) ==
    Blake3Hex(Display(r.capsule_id) \o Colon \o Display(r.input_commit) \o Colon
              \o Display(r.output_commit) \o Colon \o Display(r.node_id) \o Colon
              \o DisplayNumber(r.nonce) \o Colon \o Display(r.timestamp))

receipt_id(r) ==
    Blake3Hex(Display(r.capsule_id) \o Colon \o Display(r.input_commit) \o Colon
              \o Display(r.output_commit) \o Colon \o Display(r.node_id) \o Colon
              \o DisplayNumber(r.nonce))

\* Receipts built by ExecutionReceipt::new.
BuiltReceipts ==
    {ExecutionReceipt_new(capsule, "b1", output, metrics, key, nonce, Rfc3339(t)) :
        capsule \in Bytes, output \in Bytes,
        metrics \in {m \in MetricsValues : m.fuel_used = 0 /\ m.memory_mb \in {0, 20}},
        key \in Keys, nonce \in 0..1, t \in 1..2}

\* Receipts read by ExecutionReceipt::from_json: the fields are whatever the
\* JSON text holds.
ParsedReceipts ==
    {[ExecutionReceipt_new("b1", "b1", "b1", CHOOSE m \in MetricsValues : TRUE, "k1", 1, Now)
        EXCEPT !.capsule_id = Text(c), !.input_commit = Text(i)] :
        c \in {<<"a">>, <<"a", ":", "a">>}, i \in {<<"a">>, <<"a", ":", "a">>}}

ReceiptValues == BuiltReceipts \cup ParsedReceipts

\* A first receipt is at hand.
HoldFirst(r) ==
    /\ rcpt.phase = "none"
    /\ rcpt' = [phase |-> "first", first |-> r]
    /\ UNCHANGED <<dag, order, last, net, cfg, gossip, sched, runtime, sandbox, node, round>>

\* A second receipt is at hand; receipt_id is called on both.
HoldSecond(r) ==
    /\ rcpt.phase = "first"
    /\ rcpt' = [phase |-> "ids", first |-> rcpt.first, second |-> r,
                first_id |-> receipt_id(rcpt.first), second_id |-> receipt_id(r)]
    /\ UNCHANGED <<dag, order, last, net, cfg, gossip, sched, runtime, sandbox, node, round>>

DropPair ==
    /\ rcpt.phase = "ids"
    /\ rcpt' = NoReceipt
    /\ UNCHANGED <<dag, order, last, net, cfg, gossip, sched, runtime, sandbox, node, round>>

NextReceiptId ==
    \/ \E r \in ReceiptValues : HoldFirst(r)
    \/ \E r \in ReceiptValues : HoldSecond(r)
    \/ DropPair

SpecReceiptId == Init /\ [][NextReceiptId]_vars

\* The five fields receipt_id reads.
IdFields(r) == <<r.capsule_id, r.input_commit, r.output_commit, r.node_id, r.nonce>>

\* None of the four String fields holds a ':' (hex digests and hex keys).
ColonFree(r) ==
    \A field \in {r.capsule_id, r.input_commit, r.output_commit, r.node_id} :
        \A n \in 1..Len(Display(field)) : Display(field)[n] # Colon[1]

\* C11 as claimed: two receipts have the same receipt_id exactly when they
\* agree on capsule_id, input_commit, output_commit, node_id and nonce.
C11_IdIffFiveFields ==
    rcpt.phase = "ids" =>
        ((rcpt.first_id = rcpt.second_id) <=> (IdFields(rcpt.first) = IdFields(rcpt.second)))

\* C11, amended: two receipts that agree on the five fields have the same
\* receipt_id whatever their timestamp, metrics or signature; two receipts
\* whose String fields hold no ':' (as ExecutionReceipt::new builds them) and
\* that differ in one of the five have different ids.
C11_ReceiptIdDeterminism ==
    rcpt.phase = "ids" =>
        /\ IdFields(rcpt.first) = IdFields(rcpt.second) => rcpt.first_id = rcpt.second_id
        /\ (ColonFree(rcpt.first) /\ ColonFree(rcpt.second)
            /\ IdFields(rcpt.first) # IdFields(rcpt.second)) => rcpt.first_id # rcpt.second_id

\* C11: two receipts built by new, equal on the five fields and different in
\* timestamp, metrics and signature, have one id.
C11_Witness ==
    /\ rcpt.phase = "ids"
    /\ IdFields(rcpt.first) = IdFields(rcpt.second)
    /\ rcpt.first.timestamp # rcpt.second.timestamp
    /\ rcpt.first.exec_metrics # rcpt.second.exec_metrics
    /\ rcpt.first.signature # rcpt.second.signature
    /\ rcpt.first.nonce = 1
    /\ rcpt.first_id = rcpt.second_id

(***************************************************************************)
(* Event ids: Event::new_event called twice.                               *)
(***************************************************************************)
\* The arguments of new_event other than the key.
EventFieldValues ==
    [event_type : {"Receipt", "Heartbeat"}, content : Contents,
     parents : {<<>>, <<DanglingId>>}, sequence : 0..MaxSeq,
     node_id : {NodeIdOf(k) : k \in Keys}, timestamp : {Rfc3339(1), Rfc3339(2)}]

BuildEvent(f, key) ==
    new_event(f.event_type, f.content, f.parents, f.sequence, f.node_id, key, f.timestamp)

\* The six fields the signing payload is built from.
PayloadFields(e) ==
    <<e.event_type, e.content, e.parents, e.sequence, e.node_id, e.timestamp>>

\* new_event returns a first event, signed by key.
NewEventFirst(f, key) ==
    /\ last.phase = "idle"
    /\ last' = [op |-> "new_event", phase |-> "first",
                first |-> BuildEvent(f, key), first_key |-> key]
    /\ UNCHANGED <<dag, order, net, cfg, gossip, sched, rcpt, runtime, sandbox, node, round>>

\* new_event returns a second event; verify_signature is called on each with
\* the public key of its signer.
NewEventSecond(f, key) ==
    /\ last.phase = "first"
    /\ last' = [op |-> "new_event", phase |-> "second",
                first |-> last.first, first_key |-> last.first_key,
                second |-> BuildEvent(f, key), second_key |-> key,
                first_verifies |-> verify_signature(last.first, VerifyingKey(last.first_key)),
                second_verifies |-> verify_signature(BuildEvent(f, key), VerifyingKey(key))]
    /\ UNCHANGED <<dag, order, net, cfg, gossip, sched, rcpt, runtime, sandbox, node, round>>

DropEvents ==
    /\ last.phase = "second"
    /\ last' = Idle
    /\ UNCHANGED <<dag, order, net, cfg, gossip, sched, rcpt, runtime, sandbox, node, round>>

NextEventId ==
    \/ \E f \in EventFieldValues, key \in Keys : NewEventFirst(f, key)
    \/ \E f \in EventFieldValues, key \in Keys : NewEventSecond(f, key)
    \/ DropEvents

SpecEventId == Init /\ [][NextEventId]_vars

\* C12: two events built by new_event from the same type, content, parents,
\* sequence, node_id and timestamp have the same id, whichever keys sign them,
\* and the signature of each verifies under the key of its signer.
C12_EventIdDeterminism ==
    last.phase = "second" =>
        /\ PayloadFields(last.first) = PayloadFields(last.second)
              => last.first.id = last.second.id
        /\ last.first_verifies = "true"
        /\ last.second_verifies = "true"

\* C12: the same six fields signed by two different keys.
C12_Witness ==
    /\ last.phase = "second"
    /\ PayloadFields(last.first) = PayloadFields(last.second)
    /\ last.first_key # last.second_key
    /\ last.first.signature # last.second.signature
    /\ last.first.id = last.second.id
    /\ last.first.sequence = MaxSeq /\ last.first.parents # <<>>
    /\ last.first_verifies = "true" /\ last.second_verifies = "true"

(***************************************************************************)
(* Capsule validation (validation.rs).  A capsule is described by what the *)
(* code asks of its bytes: their length, whether Module::from_binary       *)
(* accepts them (under the validator's default engine, and under the       *)
(* runtime's engine), the exports and imports of the module, and what its  *)
(* run function does.  An import or export name is the text                *)
(* prefix "::" rest, or rest alone when prefix is empty.                   *)
(***************************************************************************)
DEFAULT_MAX_CAPSULE_SIZE == 5 * 1024
REQUIRED_EXPORTS == <<"run", "memory">>
ALLOWED_IMPORT_PREFIXES == <<"env">>

\* format!("{}::{}", module, name)
ImportName(module, name) == [prefix |-> module, rest |-> name]
BareName(name) == [prefix |-> "", rest |-> name]
NoImport == BareName("")
\* import.starts_with("env::")
StartsWith(import, prefix) == import.prefix = prefix

SizeExceeded(size, max_size) == [kind |-> "SizeExceeded", size |-> size, max_size |-> max_size, export |-> "", import |-> NoImport]
CompilationFailed == [kind |-> "CompilationFailed", size |-> 0, max_size |-> 0, export |-> "", import |-> NoImport]
MissingRequiredExport(export) == [kind |-> "MissingRequiredExport", size |-> 0, max_size |-> 0, export |-> export, import |-> NoImport]
UnauthorizedImport(import) == [kind |-> "UnauthorizedImport", size |-> 0, max_size |-> 0, export |-> "", import |-> import]

ValidationResult_success(size_bytes, exports, imports) ==
    [is_valid |-> TRUE, size_bytes |-> size_bytes, exports |-> exports,
     imports |-> imports, warnings |-> <<>>, errors |-> <<>>]
ValidationResult_failure(size_bytes, errors) ==
    [is_valid |-> FALSE, size_bytes |-> size_bytes, exports |-> <<>>,
     imports |-> <<>>, warnings |-> <<>>, errors |-> errors]

WasmValidatorNew ==
    [max_size_bytes |-> DEFAULT_MAX_CAPSULE_SIZE, strict_imports |-> TRUE,
     require_standard_exports |-> TRUE]

Contains(seq, x) == \E n \in 1..Len(seq) : seq[n] = x

is_import_allowed(import) ==
    \E n \in 1..Len(ALLOWED_IMPORT_PREFIXES) : StartsWith(import, ALLOWED_IMPORT_PREFIXES[n])

\* for required_export in REQUIRED_EXPORTS { if !exports.contains(..) { push } }
RECURSIVE MissingExportErrors(_, _)
MissingExportErrors(exports, n) ==
    IF n = 0 THEN <<>>
    ELSE MissingExportErrors(exports, n - 1)
         \o (IF Contains(exports, REQUIRED_EXPORTS[n]) THEN <<>>
             ELSE <<MissingRequiredExport(REQUIRED_EXPORTS[n])>>)

\* for import in &imports { if !self.is_import_allowed(import) { push } }
RECURSIVE UnauthorizedImportErrors(_, _)
UnauthorizedImportErrors(imports, n) ==
    IF n = 0 THEN <<>>
    ELSE UnauthorizedImportErrors(imports, n - 1)
         \o (IF is_import_allowed(imports[n]) THEN <<>>
             ELSE <<UnauthorizedImport(imports[n])>>)

\* WasmValidator::validate with every check run, the size error first.
validate_without_early_return(v, wasm) ==
    LET size_error == IF wasm.size > v.max_size_bytes
                      THEN <<SizeExceeded(wasm.size, v.max_size_bytes)>> ELSE <<>>
        compile_error == IF wasm.compiles = "no" THEN <<CompilationFailed>> ELSE <<>>
        errors == size_error \o compile_error
                  \o MissingExportErrors(wasm.exports, Len(REQUIRED_EXPORTS))
                  \o UnauthorizedImportErrors(wasm.imports, Len(wasm.imports))
    IN IF errors = <<>> THEN ValidationResult_success(wasm.size, wasm.exports, wasm.imports)
       ELSE ValidationResult_failure(wasm.size, errors)

\* WasmValidator::validate
validate(v, wasm) ==
    LET size_bytes == wasm.size
        warnings == IF size_bytes > (v.max_size_bytes * 80) \div 100
                    THEN <<"approaching limit">> ELSE <<>>
        export_errors == IF v.require_standard_exports
                         THEN MissingExportErrors(wasm.exports, Len(REQUIRED_EXPORTS))
                         ELSE <<>>
        import_errors == IF v.strict_imports
                         THEN UnauthorizedImportErrors(wasm.imports, Len(wasm.imports))
                         ELSE <<>>
        errors == export_errors \o import_errors
    IN IF size_bytes > v.max_size_bytes
       THEN ValidationResult_failure(size_bytes, <<SizeExceeded(size_bytes, v.max_size_bytes)>>)
       ELSE IF wasm.compiles = "no"
       THEN ValidationResult_failure(size_bytes, <<CompilationFailed>>)
       ELSE IF errors = <<>>
       THEN [ValidationResult_success(size_bytes, wasm.exports, wasm.imports)
                EXCEPT !.warnings = warnings]
       ELSE ValidationResult_failure(size_bytes, errors)

(***************************************************************************)
(* The security sandbox (sandbox.rs).                                      *)
(***************************************************************************)
Capabilities == {"Hash", "Json", "Base64", "Time", "Random"}

\* ResourceLimits::default, with the capabilities and the deadline given.
ResourceLimits(capabilities, execution_time_ms) ==
    [memory_limit_mb |-> 32, execution_time_ms |-> execution_time_ms,
     fuel_limit |-> 1000000, capabilities |-> capabilities]

\* The match of generate_host_function_allowlist.
HostFunctionsOf(capability) ==
    CASE capability = "Hash" -> {"hash_commit", "hash_verify"}
      [] capability = "Json" -> {"json_path", "json_extract"}
      [] capability = "Base64" -> {"base64_encode", "base64_decode"}
      [] capability = "Time" -> {"time_now_ms", "time_iso8601"}
      [] capability = "Random" -> {"random_bytes", "random_u32"}

\* SecuritySandbox::generate_host_function_allowlist: function name -> capability
generate_host_function_allowlist(capabilities) ==
    [f \in UNION {HostFunctionsOf(c) : c \in capabilities} |->
        CHOOSE c \in capabilities : f \in HostFunctionsOf(c)]

\* SecuritySandbox::new
SecuritySandbox_new(resource_limits) ==
    [resource_limits |-> resource_limits, access_log |-> <<>>,
     host_function_allowlist |->
         generate_host_function_allowlist(resource_limits.capabilities)]

has_capability(sb, capability) == capability \in sb.resource_limits.capabilities

allows_host_function(sb, function_name) ==
    function_name \in DOMAIN sb.host_function_allowlist

\* SecuritySandbox::allows_import
allows_import(sb, import_name) ==
    IF StartsWith(import_name, "env")
    THEN allows_host_function(sb, import_name.rest)
    ELSE import_name \in {ImportName("env", "memory"), ImportName("env", "abort")}

(***************************************************************************)
(* WasmRuntime::execute (execution.rs).                                    *)
(***************************************************************************)
\* The functions execute_module registers with the linker, by capability.
LinkedFunctions(sb) ==
    (IF has_capability(sb, "Hash") THEN {ImportName("env", "hash_commit")} ELSE {})
    \cup (IF has_capability(sb, "Json") THEN {ImportName("env", "json_path")} ELSE {})
    \cup (IF has_capability(sb, "Time") THEN {ImportName("env", "time_now_ms")} ELSE {})

\* memory.data_size of a module with one page of memory
MemoryDataSize == 64 * 1024
InputPtr == 1024

NoMetrics == [fuel_used |-> 0, memory_mb |-> 0, duration_ms |-> 0, host_function_calls |-> 0]
ModuleOk(output, metrics) == [kind |-> "Ok", reason |-> "", output |-> output, metrics |-> metrics]
ModuleErr(kind, reason) == [kind |-> kind, reason |-> reason, output |-> "", metrics |-> NoMetrics]

\* run_func.call_async: what the call of the capsule's run comes back with.
\* "Pending" is a call that never comes back.
call_async(config, wasm) ==
    CASE wasm.run = "return" -> "Ok"
      [] wasm.run = "negative" -> "OkNegative"
      [] wasm.run = "trap" -> "Trap"
      [] wasm.run = "burn" -> IF config.enable_fuel THEN "OutOfFuel" ELSE "Ok"
      [] wasm.run = "loop" -> IF config.enable_fuel THEN "OutOfFuel" ELSE "Pending"
      [] wasm.run = "grow_checked" -> "Ok"
      [] wasm.run = "grow_unchecked" -> "Trap"

\* WasmRuntime::execute_module
execute_module(config, wasm, input, sb) ==
    LET called == call_async(config, wasm)
        metrics == [fuel_used |-> IF config.enable_fuel THEN 1 ELSE 0,
                    memory_mb |-> (MemoryDataSize * 10000) \div (1024 * 1024),
                    duration_ms |-> 1, host_function_calls |-> 0]
    IN IF \E n \in 1..Len(wasm.imports) : wasm.imports[n] \notin LinkedFunctions(sb)
       THEN ModuleErr("ExecutionFailed", "Module instantiation failed")
       ELSE IF ~Contains(wasm.exports, "run")
       THEN ModuleErr("ExecutionFailed", "Failed to get 'run' function")
       ELSE IF ~Contains(wasm.exports, "memory")
       THEN ModuleErr("ExecutionFailed", "Module missing 'memory' export")
       ELSE IF InputPtr + input.len > MemoryDataSize
       THEN ModuleErr("ExecutionFailed", "Input too large for WASM memory")
       ELSE IF called = "Pending" THEN ModuleErr("Pending", "")
       ELSE IF called \in {"Trap", "OutOfFuel"}
       THEN ModuleErr("ExecutionFailed", "Function execution failed")
       ELSE IF called = "OkNegative" THEN ModuleErr("IOError", "Output too large")
       ELSE ModuleOk(wasm.output, metrics)

NoSource == [kind |-> "", size |-> 0, max_size |-> 0, export |-> "", import |-> NoImport]
ExecOk(nonce) == [kind |-> "Ok", source |-> NoSource, timeout_ms |-> 0, reason |-> "", nonce |-> nonce]
ExecErr(kind, reason) == [kind |-> kind, source |-> NoSource, timeout_ms |-> 0, reason |-> reason, nonce |-> 0]
ValidationFailed(source) == [kind |-> "ValidationFailed", source |-> source, timeout_ms |-> 0, reason |-> "", nonce |-> 0]
Timeout(timeout_ms) == [kind |-> "Timeout", source |-> NoSource, timeout_ms |-> timeout_ms, reason |-> "", nonce |-> 0]

\* The run step of a call that got as far as tokio::time::timeout.
RunStep(config, wasm, resource_limits, elapsed) ==
    [run |-> wasm.run,
     outcome |-> IF elapsed THEN "Deadline" ELSE call_async(config, wasm),
     execution_time_ms |-> resource_limits.execution_time_ms]

\* WasmRuntime::execute with the counter advanced on every call.
execute_counting_every_call(rt, wasm, input, resource_limits, elapsed, timestamp) ==
    LET validation_result == validate(WasmValidatorNew, wasm)
        sb == SecuritySandbox_new(resource_limits)
        ran == execute_module(rt.config, wasm, input, sb)
        receipt == ExecutionReceipt_new(wasm, input.bytes, ran.output, ran.metrics,
                                        rt.signing_key, rt.nonce_counter, timestamp)
        returned ==
            IF input.len > rt.config.max_io_size THEN ExecErr("IOError", "Input too large")
            ELSE IF ~validation_result.is_valid
            THEN ValidationFailed(validation_result.errors[1])
            ELSE IF wasm.compiles # "both"
            THEN ExecErr("ExecutionFailed", "Module compilation failed")
            ELSE IF elapsed /\ ran.reason \in {"", "Function execution failed", "Output too large"}
            THEN Timeout(resource_limits.execution_time_ms)
            ELSE IF ran.kind # "Ok" THEN ExecErr(ran.kind, ran.reason)
            ELSE ExecOk(rt.nonce_counter)
    IN [rt EXCEPT !.nonce_counter = @ + 1,
                  !.emitted = IF returned.kind = "Ok" THEN Append(@, receipt) ELSE @,
                  !.result = returned, !.step = NoStep]

\* WasmRuntime::execute.  `elapsed` says whether the deadline of
\* tokio::time::timeout passes while execute_module is still pending, which
\* it can be only once the capsule's run has been called.
execute(rt, wasm, input, resource_limits, elapsed, timestamp) ==
    LET validation_result == validate(WasmValidatorNew, wasm)
        sb == SecuritySandbox_new(resource_limits)
        ran == execute_module(rt.config, wasm, input, sb)
        step == RunStep(rt.config, wasm, resource_limits, elapsed)
        \* the call got to run_func.call_async
        called == ran.reason \in {"", "Function execution failed", "Output too large"}
        receipt == ExecutionReceipt_new(wasm, input.bytes, ran.output, ran.metrics,
                                        rt.signing_key, rt.nonce_counter, timestamp)
    IN IF input.len > rt.config.max_io_size
       THEN [rt EXCEPT !.result = ExecErr("IOError", "Input too large"), !.step = NoStep]
       ELSE IF ~validation_result.is_valid
       THEN [rt EXCEPT !.result = ValidationFailed(validation_result.errors[1]),
                       !.step = NoStep]
       ELSE IF wasm.compiles # "both"
       THEN [rt EXCEPT !.result = ExecErr("ExecutionFailed", "Module compilation failed"),
                       !.step = NoStep]
       ELSE IF elapsed /\ called
       THEN [rt EXCEPT !.result = Timeout(resource_limits.execution_time_ms), !.step = step]
       ELSE IF ran.kind # "Ok"
       THEN [rt EXCEPT !.result = ExecErr(ran.kind, ran.reason),
                       !.step = IF called THEN step ELSE NoStep]
       ELSE [rt EXCEPT !.nonce_counter = @ + 1, !.emitted = Append(@, receipt),
                       !.result = ExecOk(rt.nonce_counter), !.step = step]

(***************************************************************************)
(* SpecRuntime: one WasmRuntime is handed capsules to execute.             *)
(***************************************************************************)
MaxRuns == 3

GoodCapsule ==
    [size |-> 100, compiles |-> "both", exports |-> <<"run", "memory">>,
     imports |-> <<>>, run |-> "return", output |-> "b1"]

\* The capsules handed to execute: the good one, and capsules that differ
\* from it in size, in what the compilers say, in exports, imports, in what
\* run does, and two that are too large and broken besides.
CapsuleValues ==
    {GoodCapsule}
    \cup {[GoodCapsule EXCEPT !.size = s] :
            s \in {4200, DEFAULT_MAX_CAPSULE_SIZE, DEFAULT_MAX_CAPSULE_SIZE + 1}}
    \cup {[GoodCapsule EXCEPT !.compiles = c] : c \in {"no", "validator_only"}}
    \cup {[GoodCapsule EXCEPT !.exports = e] : e \in {<<"run">>, <<"memory">>, <<>>}}
    \cup {[GoodCapsule EXCEPT !.imports = <<i>>] :
            i \in {ImportName("env", "hash_commit"), ImportName("env", "hash_verify"),
                   ImportName("env", "random_bytes"), ImportName("wasi", "fd_write")}}
    \cup {[GoodCapsule EXCEPT !.imports = <<ImportName("wasi", "fd_write")>>, !.exports = <<"run">>]}
    \cup {[GoodCapsule EXCEPT !.run = r] :
            r \in {"negative", "trap", "burn", "loop", "grow_checked", "grow_unchecked"}}
    \cup {[GoodCapsule EXCEPT !.size = DEFAULT_MAX_CAPSULE_SIZE + 1, !.compiles = "no"],
          [GoodCapsule EXCEPT !.size = 2 * DEFAULT_MAX_CAPSULE_SIZE, !.exports = <<>>,
                              !.imports = <<ImportName("wasi", "fd_write")>>]}

\* Inputs: one that fits, one larger than the memory, one above max_io_size.
InputValues ==
    {[bytes |-> "b1", len |-> 10], [bytes |-> "b2", len |-> MemoryDataSize],
     [bytes |-> "b2", len |-> MAX_IO_SIZE + 1]}

LimitValues ==
    {ResourceLimits(c, t) : c \in {{"Hash", "Json"}, {}, {"Random"}}, t \in {100, 1000}}

\* WasmRuntime::with_config with fuel metering switched off.
WithConfig(config) ==
    /\ runtime = WasmRuntimeNew
    /\ config # runtime.config
    /\ runtime' = WasmRuntime_with_config(runtime.signing_key, config)
    /\ UNCHANGED <<dag, order, last, net, cfg, gossip, sched, rcpt, sandbox, node, round>>

\* runtime.execute(capsule, input, limits).await.  A call that never comes
\* back keeps the runtime borrowed: nothing else is called on it.
Execute(wasm, input, resource_limits, elapsed) ==
    /\ runtime.result.kind # "Pending"
    /\ runtime.nonce_counter <= MaxRuns
    /\ runtime' = execute(runtime, wasm, input, resource_limits, elapsed, Now)
    /\ UNCHANGED <<dag, order, last, net, cfg, gossip, sched, rcpt, sandbox, node, round>>

NextRuntime ==
    \/ \E config \in {[RuntimeConfigDefault EXCEPT !.enable_fuel = FALSE]} : WithConfig(config)
    \/ \E wasm \in CapsuleValues, input \in InputValues, limits \in LimitValues,
          elapsed \in BOOLEAN : Execute(wasm, input, limits, elapsed)

SpecRuntime == Init /\ [][NextRuntime]_vars

\* A step of execute: the runtime changed and it was not rebuilt.
ExecuteStep == runtime' # runtime /\ runtime'.config = runtime.config

\* C13: across the execute calls on one WasmRuntime, a receipt is produced
\* exactly when the call succeeds and nonce_counter is incremented exactly
\* then: the receipts carry the nonces 1, 2, 3, ... in order, and a call that
\* fails emits no receipt and leaves nonce_counter unchanged.
C13_ReceiptPerSuccess ==
    /\ [](/\ runtime.nonce_counter = Len(runtime.emitted) + 1
          /\ \A n \in 1..Len(runtime.emitted) : runtime.emitted[n].nonce = n)
    /\ [][ExecuteStep =>
            IF runtime'.result.kind = "Ok"
            THEN /\ runtime'.nonce_counter = runtime.nonce_counter + 1
                 /\ Len(runtime'.emitted) = Len(runtime.emitted) + 1
                 /\ SubSeq(runtime'.emitted, 1, Len(runtime.emitted)) = runtime.emitted
                 /\ runtime'.emitted[Len(runtime'.emitted)].nonce = runtime.nonce_counter
            ELSE /\ runtime'.nonce_counter = runtime.nonce_counter
                 /\ runtime'.emitted = runtime.emitted]_vars

\* C13: two executions succeeded and a third call failed validation.
C13_Witness ==
    /\ Len(runtime.emitted) = 2
    /\ runtime.nonce_counter = 3
    /\ runtime.result.kind \in {"ValidationFailed", "Timeout", "ExecutionFailed", "IOError"}

\* C14: each way the run step of execute can fail has its own error kind:
\* a deadline that passes returns Timeout{execution_time_ms} (a capsule that
\* loops forever under execution_time_ms = 100 returns Timeout{100}), a trap
\* returns ExecutionFailed, fuel exhaustion returns
\* ResourceLimitExceeded{fuel}, and memory growth past the cap returns
\* ResourceLimitExceeded{memory}.
C14_ErrorKindPerFailure ==
    runtime.step.run # "" =>
        /\ runtime.step.outcome = "Deadline" =>
               runtime.result = Timeout(runtime.step.execution_time_ms)
        /\ (runtime.step.run = "loop" /\ runtime.step.execution_time_ms = 100) =>
               runtime.result = Timeout(100)
        /\ (runtime.step.run = "trap" /\ runtime.step.outcome = "Trap") =>
               runtime.result.kind = "ExecutionFailed"
        /\ runtime.step.outcome = "OutOfFuel" =>
               runtime.result = ExecErr("ResourceLimitExceeded", "fuel")
        /\ (runtime.step.run \in {"grow_checked", "grow_unchecked"}
            /\ runtime.step.outcome # "Deadline") =>
               runtime.result = ExecErr("ResourceLimitExceeded", "memory")

\* C15: on an Events message, handle_events replies Ack{count, rejected} where
\* count is the number of events accepted and rejected lists the id of every
\* other event, duplicates of already-stored events and malformed events
\* included; each rejected duplicate increments duplicate_events.
C15_AckCountsAndRejects ==
    [][HandleEventsStep =>
        LET r == net[1].to
            events == net[1].msg.events
            ack == net'[1].msg
            duplicates == {n \in 1..Len(events) : events[n].id \in Stored(r)}
            before == gossip[r].stats.duplicate_events
            after == gossip'[r].stats.duplicate_events
        IN /\ ack.type = "Ack"
           /\ ack.count + Len(ack.rejected) = Len(events)
           /\ ack.count = Cardinality(DOMAIN dag'[r].events \ DOMAIN dag[r].events)
           /\ \A n \in duplicates : Contains(ack.rejected, events[n].id)
           /\ after = MaxCount \/ after >= before + Cardinality(duplicates)]_vars

(***************************************************************************)
(* SpecSync: the outside peer fills a replica's store with Events messages *)
(* and asks for it back with Sync messages of every limit.                 *)
(***************************************************************************)
MaxLimit == 3

\* The outside peer sends Sync{since, limit} to replica r.
PeerSendSync(r, since, limit) ==
    /\ net = <<>>
    /\ net' = <<Envelope(PeerAddr, r, SyncMsg(since, limit))>>
    /\ UNCHANGED <<dag, order, last, cfg, gossip, sched, rcpt, runtime, sandbox, node, round>>

NextSync ==
    \/ \E events \in PeerBatches("A") : PeerSend("A", events)
    \/ \E since \in SinceChoices("A"), limit \in 0..MaxLimit : PeerSendSync("A", since, limit)
    \/ Deliver
    \/ PeerTake

SpecSync == Init /\ [][NextSync]_vars

HandleSyncStep ==
    /\ net # <<>> /\ net[1].to \in Replicas /\ net[1].msg.type = "Sync"
    /\ net' # net

\* C16: the reply to Sync{since, limit} is Events{events, has_more} where
\* events is the listing of events_since(since) cut to its first
\* min(limit, max_events_per_sync) entries, and has_more is true exactly
\* when the cut dropped at least one event, for every limit (0 and limits
\* above max_events_per_sync included) and every store size.
C16_HasMoreIffTruncated ==
    [][HandleSyncStep =>
        LET r == net[1].to
            listing == get_events_since(dag[r], net[1].msg.since)
            kept == Min(Len(listing), Min(net[1].msg.limit, cfg))
            reply == net'[1].msg
        IN /\ reply.type = "Events"
           /\ reply.events = SubSeq(listing, 1, kept)
           /\ reply.has_more = (kept < Len(listing))]_vars

(***************************************************************************)
(* SpecSandbox: a SecuritySandbox is built from a set of capabilities and  *)
(* asked about import names.                                               *)
(***************************************************************************)
AllHostFunctions == UNION {HostFunctionsOf(c) : c \in Capabilities}

\* The names asked about: env:: before every host function, the two system
\* imports, an unknown env:: name, names of other modules and bare names.
ImportNames ==
    {ImportName("env", f) : f \in AllHostFunctions \cup {"memory", "abort", "unknown"}}
    \cup {ImportName(m, f) : m \in {"wasi", "unknown"}, f \in {"hash_commit", "memory", "function"}}
    \cup {BareName(f) : f \in {"hash_commit", "memory", "abort"}}

\* SecuritySandbox::new(limits)
NewSandbox(resource_limits) ==
    /\ sandbox.phase = "none"
    /\ sandbox' = [phase |-> "built", sb |-> SecuritySandbox_new(resource_limits),
                   import_name |-> NoImport, allowed |-> FALSE]
    /\ UNCHANGED <<dag, order, last, net, cfg, gossip, sched, rcpt, runtime, node, round>>

\* sandbox.allows_import(import_name)
AllowsImport(import_name) ==
    /\ sandbox.phase \in {"built", "asked"}
    /\ sandbox' = [sandbox EXCEPT !.phase = "asked", !.import_name = import_name,
                                  !.allowed = allows_import(sandbox.sb, import_name)]
    /\ UNCHANGED <<dag, order, last, net, cfg, gossip, sched, rcpt, runtime, node, round>>

DropSandbox ==
    /\ sandbox.phase = "asked"
    /\ sandbox' = NoSandbox
    /\ UNCHANGED <<dag, order, last, net, cfg, gossip, sched, rcpt, runtime, node, round>>

NextSandbox ==
    \/ \E capabilities \in SUBSET Capabilities : NewSandbox(ResourceLimits(capabilities, 1000))
    \/ \E import_name \in ImportNames : AllowsImport(import_name)
    \/ DropSandbox

SpecSandbox == Init /\ [][NextSandbox]_vars

\* C17: allows_import(name) is true iff name, with its env:: prefix
\* stripped, is a host function of a granted capability, or name is
\* env::memory or env::abort: these two are allowed under every capability
\* set, env::f exactly when the capability of f is granted, and a name
\* outside env:: never.
C17_AllowsImportIff ==
    sandbox.phase = "asked" =>
        sandbox.allowed =
            (\/ sandbox.import_name \in {ImportName("env", "memory"), ImportName("env", "abort")}
             \/ /\ sandbox.import_name.prefix = "env"
                /\ \E c \in sandbox.sb.resource_limits.capabilities :
                      sandbox.import_name.rest \in HostFunctionsOf(c))

(***************************************************************************)
(* SpecValidate: a WasmValidator is built and handed capsules.             *)
(***************************************************************************)
\* ValidatorConfig values: the default, the small limit of
\* test_size_validation, and the two checks switched off.
ValidatorConfigs ==
    {[max_size_bytes |-> m, strict_imports |-> s, require_standard_exports |-> e] :
        m \in {DEFAULT_MAX_CAPSULE_SIZE, 100}, s \in BOOLEAN, e \in BOOLEAN}

\* The capsules handed to validate: those handed to execute, two of 6000
\* bytes, one of them no WebAssembly at all, one of 200 bytes, and two of
\* 4200 bytes that fail the later checks.
ValidatedCapsules ==
    CapsuleValues
    \cup {[GoodCapsule EXCEPT !.size = 6000],
          [GoodCapsule EXCEPT !.size = 6000, !.compiles = "no", !.exports = <<>>]}
    \cup {[GoodCapsule EXCEPT !.size = 200],
          [GoodCapsule EXCEPT !.size = 4200, !.compiles = "no"],
          [GoodCapsule EXCEPT !.size = 4200, !.exports = <<"memory">>]}

\* WasmValidator::with_config(config)
NewValidator(config) ==
    /\ sandbox.phase = "none"
    /\ sandbox' = [phase |-> "validator", validator |-> config,
                   wasm |-> GoodCapsule, result |-> ValidationResult_failure(0, <<>>)]
    /\ UNCHANGED <<dag, order, last, net, cfg, gossip, sched, rcpt, runtime, node, round>>

\* validator.validate(wasm_bytes)
Validate(wasm) ==
    /\ sandbox.phase \in {"validator", "validated"}
    /\ sandbox' = [sandbox EXCEPT !.phase = "validated", !.wasm = wasm,
                                  !.result = validate(sandbox.validator, wasm)]
    /\ UNCHANGED <<dag, order, last, net, cfg, gossip, sched, rcpt, runtime, node, round>>

DropValidator ==
    /\ sandbox.phase = "validated"
    /\ sandbox' = NoSandbox
    /\ UNCHANGED <<dag, order, last, net, cfg, gossip, sched, rcpt, runtime, node, round>>

NextValidate ==
    \/ \E config \in ValidatorConfigs : NewValidator(config)
    \/ \E wasm \in ValidatedCapsules : Validate(wasm)
    \/ DropValidator

SpecValidate == Init /\ [][NextValidate]_vars

\* C18: validate checks the size first and stops there: a capsule longer
\* than max_size_bytes gets is_valid = false with SizeExceeded{size, max_size}
\* as its first and only error (6000 bytes against the default 5120 gives
\* SizeExceeded{6000, 5120}), whatever else is wrong with it; and in every
\* result is_valid holds exactly when the error list is empty.
C18_SizeCheckedFirst ==
    sandbox.phase = "validated" =>
        /\ sandbox.wasm.size > sandbox.validator.max_size_bytes =>
              /\ ~sandbox.result.is_valid
              /\ sandbox.result.errors =
                    <<SizeExceeded(sandbox.wasm.size, sandbox.validator.max_size_bytes)>>
              /\ sandbox.result.exports = <<>> /\ sandbox.result.imports = <<>>
        /\ (sandbox.wasm.size = 6000 /\ sandbox.validator = WasmValidatorNew) =>
              sandbox.result.errors = <<[kind |-> "SizeExceeded", size |-> 6000, max_size |-> 5120, export |-> "", import |-> NoImport]>>
        /\ sandbox.result.is_valid <=> (sandbox.result.errors = <<>>)

\* C18: the default validator was handed 6000 bytes that are no module.
C18_Witness ==
    /\ sandbox.phase = "validated"
    /\ sandbox.validator = WasmValidatorNew
    /\ sandbox.wasm.size = 6000
    /\ sandbox.wasm.compiles = "no"
    /\ Len(sandbox.result.errors) = 1

(***************************************************************************)
(* SpecGates: a capsule and the resource limits it is to run under are in  *)
(* hand (commands/test.rs); the capsule is validated (validate_capsule)    *)
(* and executed on a fresh runtime.                                        *)
(***************************************************************************)
\* Capsules with one import: env:: before each host function, and a
\* function of another module.
ImportingCapsules ==
    {GoodCapsule}
    \cup {[GoodCapsule EXCEPT !.imports = <<ImportName("env", f)>>] : f \in AllHostFunctions}
    \cup {[GoodCapsule EXCEPT !.imports = <<ImportName("wasi", "fd_write")>>]}

\* The capsule file is read and the limits are parsed.
LoadCapsule(wasm, resource_limits) ==
    /\ sandbox.phase = "none"
    /\ sandbox' = [phase |-> "capsule", wasm |-> wasm, limits |-> resource_limits,
                   validated |-> FALSE, validation |-> ValidationResult_failure(0, <<>>),
                   executed |-> FALSE, execution |-> NoResult]
    /\ UNCHANGED <<dag, order, last, net, cfg, gossip, sched, rcpt, runtime, node, round>>

\* validate_capsule(&capsule_bytes): a validator with default settings.
ValidateCapsule ==
    /\ sandbox.phase = "capsule"
    /\ ~sandbox.validated
    /\ sandbox' = [sandbox EXCEPT !.validated = TRUE,
                                  !.validation = validate(WasmValidatorNew, sandbox.wasm)]
    /\ UNCHANGED <<dag, order, last, net, cfg, gossip, sched, rcpt, runtime, node, round>>

\* WasmRuntime::new(key)?.execute(&capsule_bytes, input, resource_limits)
ExecuteCapsule(elapsed) ==
    /\ sandbox.phase = "capsule"
    /\ ~sandbox.executed
    /\ sandbox' = [sandbox EXCEPT !.executed = TRUE,
                      !.execution = execute(WasmRuntimeNew, sandbox.wasm,
                                            [bytes |-> "b1", len |-> 10], sandbox.limits,
                                            elapsed, Now).result]
    /\ UNCHANGED <<dag, order, last, net, cfg, gossip, sched, rcpt, runtime, node, round>>

DropCapsule ==
    /\ sandbox.phase = "capsule"
    /\ sandbox.validated /\ sandbox.executed
    /\ sandbox' = NoSandbox
    /\ UNCHANGED <<dag, order, last, net, cfg, gossip, sched, rcpt, runtime, node, round>>

NextGates ==
    \/ \E wasm \in ImportingCapsules, capabilities \in SUBSET Capabilities :
          LoadCapsule(wasm, ResourceLimits(capabilities, 1000))
    \/ ValidateCapsule
    \/ \E elapsed \in BOOLEAN : ExecuteCapsule(elapsed)
    \/ DropCapsule

SpecGates == Init /\ [][NextGates]_vars

\* The imports of the capsule in hand that name a host function whose
\* capability the limits in hand do not grant.
UngrantedImports ==
    {sandbox.wasm.imports[n] : n \in 1..Len(sandbox.wasm.imports)}
    \cap {ImportName("env", f) :
            f \in AllHostFunctions \ DOMAIN generate_host_function_allowlist(sandbox.limits.capabilities)}

\* C19: a capsule that imports a host function whose capability is not
\* granted is stopped at both gates: the validator (strict_imports) flags
\* the import as UnauthorizedImport, and execution fails with
\* ExecutionFailed because the linker cannot resolve the import; for every
\* host function of every ungranted capability.
C19_StoppedAtBothGates ==
    sandbox.phase = "capsule" =>
        \A import \in UngrantedImports :
            /\ sandbox.validated =>
                  /\ ~sandbox.validation.is_valid
                  /\ Contains(sandbox.validation.errors, UnauthorizedImport(import))
            /\ sandbox.executed => sandbox.execution.kind = "ExecutionFailed"

\* C20: DAG storage is append-only.  No operation removes a stored event or
\* changes a field of one: an event get_event(id) returns is returned
\* unchanged after every later operation, and the number of stored events
\* never decreases.
C20_AppendOnly ==
    [][\A r \in Replicas :
          /\ \A id \in Stored(r) :
                /\ id \in DOMAIN dag'[r].events
                /\ dag'[r].events[id] = EventOf(r, id)
          /\ Cardinality(DOMAIN dag'[r].events) >= Cardinality(Stored(r))]_vars

\* C20: two events are stored and the replica has been handed, on top of
\* them, events under ids it had stored already.
C20_Witness ==
    /\ Cardinality(Stored("A")) >= 2
    /\ gossip["A"].stats.events_received > Cardinality(Stored("A"))

(***************************************************************************)
(* SpecTamper: a receipt is built, and a copy of it with one field changed *)
(* (to_json, an edit, from_json) is verified with the signer's key.        *)
(***************************************************************************)
SignedFields ==
    {"capsule_id", "input_commit", "output_commit", "fuel_used", "memory_mb",
     "duration_ms", "host_function_calls", "node_id", "nonce", "timestamp"}

\* The values a field is changed to.
FieldValues(field) ==
    CASE field \in {"capsule_id", "input_commit", "output_commit"} -> {Blake3Hex(b) : b \in Bytes}
      [] field = "fuel_used" -> {0, 1}
      [] field = "memory_mb" -> {0, 12, 14, 20}
      [] field = "duration_ms" -> {1, 2}
      [] field = "host_function_calls" -> {0, 1}
      [] field = "node_id" -> {NodeIdOf(k) : k \in Keys}
      [] field = "nonce" -> 0..MaxNonce
      [] field = "timestamp" -> {Rfc3339(1), Rfc3339(2)}

FieldOf(r, field) ==
    CASE field = "capsule_id" -> r.capsule_id
      [] field = "input_commit" -> r.input_commit
      [] field = "output_commit" -> r.output_commit
      [] field = "fuel_used" -> r.exec_metrics.fuel_used
      [] field = "memory_mb" -> r.exec_metrics.memory_mb
      [] field = "duration_ms" -> r.exec_metrics.duration_ms
      [] field = "host_function_calls" -> r.exec_metrics.host_function_calls
      [] field = "node_id" -> r.node_id
      [] field = "nonce" -> r.nonce
      [] field = "timestamp" -> r.timestamp

\* The receipt from_json reads when `field` of the JSON text was set to value.
WithField(r, field, value) ==
    CASE field = "capsule_id" -> [r EXCEPT !.capsule_id = value]
      [] field = "input_commit" -> [r EXCEPT !.input_commit = value]
      [] field = "output_commit" -> [r EXCEPT !.output_commit = value]
      [] field = "fuel_used" -> [r EXCEPT !.exec_metrics.fuel_used = value]
      [] field = "memory_mb" -> [r EXCEPT !.exec_metrics.memory_mb = value]
      [] field = "duration_ms" -> [r EXCEPT !.exec_metrics.duration_ms = value]
      [] field = "host_function_calls" -> [r EXCEPT !.exec_metrics.host_function_calls = value]
      [] field = "node_id" -> [r EXCEPT !.node_id = value]
      [] field = "nonce" -> [r EXCEPT !.nonce = value]
      [] field = "timestamp" -> [r EXCEPT !.timestamp = value]

\* from_json of the edited text, then verify with the signer's key.
TamperReceipt(field) ==
    /\ rcpt.phase = "held"
    /\ verify(rcpt.receipt, VerifyingKey(rcpt.signer)) = "Ok(true)"
    /\ \E value \in FieldValues(field) \ {FieldOf(rcpt.receipt, field)} :
          rcpt' = [phase |-> "tampered", original |-> rcpt.receipt,
                   receipt |-> WithField(rcpt.receipt, field, value),
                   signer |-> rcpt.signer, field |-> field,
                   result |-> verify(WithField(rcpt.receipt, field, value),
                                     VerifyingKey(rcpt.signer))]
    /\ UNCHANGED <<dag, order, last, net, cfg, gossip, sched, runtime, sandbox, node, round>>

\* The edited copy is let go.
DropTampered ==
    /\ rcpt.phase = "tampered"
    /\ rcpt' = NoReceipt
    /\ UNCHANGED <<dag, order, last, net, cfg, gossip, sched, runtime, sandbox, node, round>>

NextTamper ==
    \/ \E capsule \in Bytes, metrics \in MetricsValues, key \in Keys, nonce \in 0..MaxNonce :
          NewReceipt(capsule, "b1", "b1", metrics, key, nonce, Now)
    \/ \E field \in SignedFields : TamperReceipt(field)
    \/ DropTampered

SpecTamper == Init /\ [][NextTamper]_vars

\* C21 as claimed: starting from a receipt that verifies, changing any one of
\* capsule_id, input_commit, output_commit, the four exec_metrics fields,
\* node_id, nonce or timestamp makes verify with the signer's key return
\* Ok(false).
C21_AnyChangeFailsVerify ==
    rcpt.phase = "tampered" => rcpt.result = "Ok(false)"

\* C21 amended: the change makes verify return Ok(false) unless the field
\* is memory_mb and the new value has the same three-decimal text as the
\* old one; such a change leaves the receipt verifying.
C21_SignatureBindsPayload ==
    rcpt.phase = "tampered" =>
        rcpt.result =
            IF /\ rcpt.field = "memory_mb"
               /\ FormatFixed3(rcpt.receipt.exec_metrics.memory_mb)
                    = FormatFixed3(rcpt.original.exec_metrics.memory_mb)
            THEN "Ok(true)" ELSE "Ok(false)"

\* C21: a timestamp was changed, and the copy does not verify.
C21_Witness ==
    /\ rcpt.phase = "tampered"
    /\ rcpt.field = "timestamp"
    /\ rcpt.receipt.timestamp # rcpt.original.timestamp
    /\ rcpt.result = "Ok(false)"

(***************************************************************************)
(* SpecNode: a TenzikNode (node.rs) is handed events and emits its own.    *)
(***************************************************************************)
MaxNodeSeq == 3

\* tips.sort_by(|a, b| b.timestamp.cmp(&a.timestamp)): latest first, events
\* of one timestamp in the order of their keys (taken with CHOOSE).
RECURSIVE SortLatestFirst(_)
SortLatestFirst(es) ==
    IF es = {} THEN <<>>
    ELSE LET first == CHOOSE e \in es : \A x \in es : ~TimestampLess(e, x)
         IN <<first>> \o SortLatestFirst(es \ {first})

\* EventDAG::get_tips returning the latest tip only.
get_tips_latest_only(d) ==
    LET tips == SortLatestFirst({d.events[id] : id \in DOMAIN d.tips \cap DOMAIN d.events})
    IN IF tips = <<>> THEN <<>> ELSE <<tips[1]>>

\* EventDAG::get_tips
get_tips(d) ==
    SortLatestFirst({d.events[id] : id \in DOMAIN d.tips \cap DOMAIN d.events})

\* The clock of replica r's node: later than every event it stores.
NodeClock(r) == Rfc3339(Cardinality(Stored(r)) + 2)

\* What the node is handed through TenzikNode::add_event: roots of both
\* keys, stamped at one of two times, and children another node signed over
\* a stored event.
NodeInputs(r) ==
    {new_event("Receipt", "c1", <<>>, s, NodeIdOf(k), k, Rfc3339(t)) :
        s \in 1..MaxSeq, k \in Keys, t \in 1..2}
    \cup {new_event("Receipt", "c1", <<order[r][i]>>, MaxSeq, NodeIdOf("k2"), "k2", Rfc3339(2)) :
            i \in 1..Len(order[r])}

\* TenzikNode::add_event(event)
NodeAddEvent(r, e) ==
    /\ WithinBound(r, e)
    /\ LET p == add_event_plan(dag[r], e)
       IN /\ dag' = [dag EXCEPT ![r] = add_event(@, e)]
          /\ order' = [order EXCEPT ![r] = IF p.reason = "stored" THEN Append(@, e.id) ELSE @]
          /\ last' = [op |-> "add_event", phase |-> "done", to |-> r, arg |-> e,
                      result |-> p.result, reason |-> p.reason]
    /\ UNCHANGED <<net, cfg, gossip, sched, rcpt, runtime, sandbox, node, round>>

\* The body announce_self and shutdown share: the tips are read, the event
\* is built over them with self.sequence, the counter advances, and the
\* event goes to add_event.
Emit(r, op, event_type, content) ==
    /\ node[r].sequence <= MaxNodeSeq
    /\ Cardinality(Stored(r)) < MaxEvents
    /\ LET tips == get_tips(dag[r])
           parents == [i \in 1..Len(tips) |-> tips[i].id]
           event == new_event(event_type, content, parents, node[r].sequence,
                              NodeIdOf(KeyOf(r)), KeyOf(r), NodeClock(r))
           p == add_event_plan(dag[r], event)
       IN /\ node' = [node EXCEPT ![r].sequence = @ + 1]
          /\ dag' = [dag EXCEPT ![r] = add_event(@, event)]
          /\ order' = [order EXCEPT ![r] = IF p.reason = "stored" THEN Append(@, event.id) ELSE @]
          /\ last' = [op |-> op, phase |-> "done", to |-> r, arg |-> event,
                      result |-> p.result, reason |-> p.reason]
    /\ UNCHANGED <<net, cfg, gossip, sched, rcpt, runtime, sandbox, round>>

\* TenzikNode::announce_self
AnnounceSelf(r) == Emit(r, "announce_self", "NodeAnnounce", "node_info")

\* TenzikNode::shutdown
Shutdown(r) == Emit(r, "shutdown", "NodeLeave", "Graceful shutdown")

NextNode ==
    \/ \E e \in NodeInputs("A") : NodeAddEvent("A", e)
    \/ AnnounceSelf("A")
    \/ Shutdown("A")

SpecNode == Init /\ [][NextNode]_vars

\* C22: every event a node emits itself (NodeAnnounce in announce_self,
\* NodeLeave in shutdown) has as parents exactly the ids of the tips of its
\* DAG at emission time (none in an empty DAG), so right after a successful
\* emission that event is the only tip.
C22_EmittedOverAllTips ==
    [][node' # node =>
        LET r == last'.to
            e == last'.arg
        IN /\ ParentSet(e) = DOMAIN dag[r].tips
           /\ Len(e.parents) = Cardinality(DOMAIN dag[r].tips)
           /\ last'.result = "Ok" => DOMAIN dag'[r].tips = {e.id}]_vars

\* C22: the node emitted an event over two tips, and it is the only tip.
C22_Witness ==
    /\ last.op \in {"announce_self", "shutdown"}
    /\ last.result = "Ok"
    /\ Len(last.arg.parents) = 2
    /\ DOMAIN dag[last.to].tips = {last.arg.id}


(***************************************************************************)
(* Pings: a replica answering Ping messages of peers it knows and peers it *)
(* does not know, between the Events messages that fill its store.         *)
(***************************************************************************)
\* A second outside address.
StrangerAddr == "Q"

PingTimestamps == 1..2

\* An outside node sends Ping{timestamp} to replica r.
PeerPing(r, from, timestamp) ==
    /\ net = <<>>
    /\ net' = <<Envelope(from, r, PingMsg(timestamp))>>
    /\ UNCHANGED <<dag, order, last, cfg, gossip, sched, rcpt, runtime, sandbox, node, round>>

NextPing ==
    \/ AddPeer("A", PeerAddr, NodeIdOf("k1"))
    \/ \E events \in PeerBatches("A") : PeerSend("A", events)
    \/ \E from \in {PeerAddr, StrangerAddr}, timestamp \in PingTimestamps :
          PeerPing("A", from, timestamp)
    \/ Deliver
    \/ PeerTake

SpecPing == Init /\ [][NextPing]_vars

\* C23: handle_ping(ts) answers the sender, in the peer table or not, with
\* exactly one Pong whose ping_timestamp is ts, and changes neither the peer
\* table, the statistics, active_syncs nor the DAG.
C23_PingAnsweredByOnePong ==
    [][(net # <<>> /\ net[1].to \in Replicas /\ net[1].msg.type = "Ping" /\ net' # net)
        => /\ Len(net') = 1
           /\ net'[1].from = net[1].to /\ net'[1].to = net[1].from
           /\ net'[1].msg.type = "Pong"
           /\ net'[1].msg.ping_timestamp = net[1].msg.timestamp
           /\ gossip' = gossip
           /\ dag' = dag]_vars

\* C23 witness: the Pong to a Ping of a sender outside the peer table is in
\* flight from a replica that has peers and stored events.
C23_Witness ==
    /\ net # <<>>
    /\ net[1].msg.type = "Pong"
    /\ net[1].msg.ping_timestamp # net[1].msg.pong_timestamp
    /\ net[1].to = StrangerAddr
    /\ net[1].to \notin DOMAIN gossip["A"].peers
    /\ DOMAIN gossip["A"].peers # {}
    /\ DOMAIN dag["A"].events # {}


(***************************************************************************)
(* A peer that sends an event ahead of its parents and sends it again once *)
(* the parents are stored, other events being delivered in between.        *)
(***************************************************************************)
ResendRoots ==
    {new_event("Receipt", "c1", <<>>, s, NodeIdOf(k), k, Now) : s \in 1..MaxSeq, k \in Keys}

ResendChildren ==
    {new_event("Receipt", "c2", <<p.id>>, s, NodeIdOf(k), k, Now) :
        p \in ResendRoots, s \in 1..MaxSeq, k \in Keys}

\* The peer sends one event.  The first event it sends while it waits for
\* nothing is the one it follows; the event it waits to send again is sent
\* again by ResendEvent only.
OfferEvent(r, e) ==
    /\ net = <<>>
    /\ last.phase \in {"idle", "waiting"}
    /\ last.phase = "waiting" => e # last.arg
    /\ WithinBound(r, e)
    /\ net' = <<Envelope(PeerAddr, r, EventsMsg(<<e>>, FALSE))>>
    /\ last' = IF last.phase = "idle"
               THEN [op |-> "offer", phase |-> "sent", to |-> r, arg |-> e,
                     result |-> "none", reason |-> "none"]
               ELSE last
    /\ UNCHANGED <<dag, order, cfg, gossip, sched, rcpt, runtime, sandbox, node, round>>

\* The peer reads the Ack.  An event refused for nothing but a missing parent
\* is kept to be sent again; the Ack of the second sending ends the story.
TakeAck ==
    /\ net # <<>>
    /\ net[1].to = PeerAddr
    /\ net' = <<>>
    /\ LET r == last.to
           e == last.arg
           ack == net[1].msg
       IN last' =
            CASE last.phase = "sent" ->
                    IF /\ ack.rejected = <<e.id>>
                       /\ add_event_plan(dag[r], e).reason = "parent"
                       /\ update_sequence(dag[r], e.node_id, e.sequence).ok
                    THEN [last EXCEPT !.phase = "waiting", !.result = "ValidationError",
                                      !.reason = "parent"]
                    ELSE Idle
              [] last.phase = "resent" ->
                    [last EXCEPT !.phase = "done",
                                 !.result = IF ack.count = 1 THEN "Ok" ELSE "ValidationError"]
              [] OTHER -> last
    /\ UNCHANGED <<dag, order, cfg, gossip, sched, rcpt, runtime, sandbox, node, round>>

\* The parents being stored, the peer sends the refused event again.
ResendEvent ==
    /\ net = <<>>
    /\ last.phase = "waiting"
    /\ ParentSet(last.arg) \subseteq Stored(last.to)
    /\ net' = <<Envelope(PeerAddr, last.to, EventsMsg(<<last.arg>>, FALSE))>>
    /\ last' = [last EXCEPT !.phase = "resent"]
    /\ UNCHANGED <<dag, order, cfg, gossip, sched, rcpt, runtime, sandbox, node, round>>

NextResend ==
    \/ \E e \in ResendRoots \cup ResendChildren : OfferEvent("A", e)
    \/ Deliver
    \/ TakeAck
    \/ ResendEvent
    \/ Return

SpecResend == Init /\ [][NextResend]_vars

\* add_event refuses the event in flight for a missing parent.
RefusedForParent ==
    /\ net # <<>> /\ net[1].to \in Replicas /\ net[1].msg.type = "Events"
    /\ add_event_plan(dag[net[1].to], net[1].msg.events[1]).reason = "parent"

\* The refusal leaves every sub-store as it was.
RefusalLeavesNoTrace == (RefusedForParent /\ net' # net) => dag' = dag

\* C24 as stated: an event refused only for a missing parent leaves no trace
\* in any sub-store, and is accepted when it is sent again after its parents
\* were inserted, whatever was accepted in between.
C24_AcceptedOnResend ==
    [][/\ RefusalLeavesNoTrace
       /\ (last.phase = "resent" /\ last'.phase = "done") => last'.result = "Ok"]_vars

\* C24 amended: the refusal leaves no trace in any sub-store; the event sent
\* again after its parents were inserted is accepted exactly when no event of
\* its node with an equal or higher sequence number was accepted in between.
C24_AcceptedOnResendIfSequenceFree ==
    [][/\ RefusalLeavesNoTrace
       /\ (last.phase = "waiting" /\ last'.phase = "resent")
            => LET r == last.to
                   e == last.arg
               IN (add_event_plan(dag[r], e).result = "Ok")
                    <=> (get_node_sequence(dag[r], e.node_id) < e.sequence)
       /\ (last.phase = "resent" /\ last'.phase = "done")
            => LET r == last.to
                   e == last.arg
               IN (last'.result = "Ok") <=> (e.id \in Stored(r))]_vars

\* C24 witness: the event once refused for a missing parent was sent again
\* after another event had been accepted in between, and is stored.
C24_Witness ==
    /\ last.phase = "done" /\ last.op = "offer" /\ last.result = "Ok"
    /\ last.arg.id \in Stored(last.to)
    /\ Cardinality(Stored(last.to)) = 3


(***************************************************************************)
(* GossipProtocol::sync_with_peers (gossip.rs): the sync round.            *)
(***************************************************************************)
\* The orders in which a HashMap can hand out the keys of S.
IterationOrders(S) ==
    {it \in [1..Cardinality(S) -> S] : \A i, j \in 1..Cardinality(S) : it[i] = it[j] => i = j}

Take(seq, n) == SubSeq(seq, 1, Min(Len(seq), n))

\* last.elapsed() > Duration::from_millis(sync_interval_ms)
ElapsedMoreThan(instant, now, interval) == now - instant > interval

\* A selection that lets unreachable peers through.
peers_to_sync_unreachable_too(g, now, config) ==
    LET keep(addr) ==
            /\ addr \notin g.active_syncs
            /\ \/ ~g.peers[addr].last_sync.some
               \/ ElapsedMoreThan(g.peers[addr].last_sync.at, now, config.sync_interval_ms)
    IN {Take(SelectSeq(it, keep), config.max_concurrent_syncs) :
            it \in IterationOrders(DOMAIN g.peers)}

\* peers_to_sync: the peers table is iterated in the order of the HashMap,
\* filtered, and cut at max_concurrent_syncs.  The vectors the iteration
\* orders can give.
peers_to_sync(g, now, config) ==
    LET keep(addr) ==
            /\ addr \notin g.active_syncs
            /\ g.peers[addr].is_reachable
            /\ \/ ~g.peers[addr].last_sync.some
               \/ ElapsedMoreThan(g.peers[addr].last_sync.at, now, config.sync_interval_ms)
    IN {Take(SelectSeq(it, keep), config.max_concurrent_syncs) :
            it \in IterationOrders(DOMAIN g.peers)}

\* sync_with_peer(peer_addr): the one call that can fail is get_events_since;
\* after it the latest max_events_per_sync events count as sent.
sync_with_peer(d, g, max_events_per_sync, peer_addr, storage_fails) ==
    IF storage_fails THEN [ok |-> FALSE, gossip |-> g]
    ELSE LET events == get_events_since(d, NONE)
             sent == Min(Len(events), max_events_per_sync)
         IN [ok |-> TRUE,
             gossip |-> IF sent = 0 THEN g
                        ELSE [g EXCEPT !.stats.events_sent = CounterAdd(@, sent),
                                       !.peers = IF peer_addr \in DOMAIN @
                                                 THEN [@ EXCEPT ![peer_addr].events_sent =
                                                                    CounterAdd(@, sent)]
                                                 ELSE @]]

\* The loop body of sync_with_peers up to the await.
sync_begin(g, peer_addr) == [g EXCEPT !.active_syncs = @ \cup {peer_addr}]

\* A loop body that leaves the peer in active_syncs.
sync_end_keeping_active(g, peer_addr, ok, now) ==
    IF ok
    THEN [g EXCEPT !.stats.sync_successes = CounterAdd(@, 1),
                   !.peers = IF peer_addr \in DOMAIN @
                             THEN [@ EXCEPT ![peer_addr].last_sync = SomeInstant(now),
                                            ![peer_addr].is_reachable = TRUE]
                             ELSE @]
    ELSE [g EXCEPT !.stats.sync_failures = CounterAdd(@, 1),
                   !.peers = IF peer_addr \in DOMAIN @
                             THEN [@ EXCEPT ![peer_addr].is_reachable = FALSE]
                             ELSE @]

\* A loop body that stamps last_sync whatever the result.
sync_end_stamping_failures(g, peer_addr, ok, now) ==
    LET h == [g EXCEPT !.active_syncs = @ \ {peer_addr},
                       !.peers = IF peer_addr \in DOMAIN @
                                 THEN [@ EXCEPT ![peer_addr].last_sync = SomeInstant(now)]
                                 ELSE @]
    IN IF ok
       THEN [h EXCEPT !.stats.sync_successes = CounterAdd(@, 1),
                      !.peers = IF peer_addr \in DOMAIN @
                                THEN [@ EXCEPT ![peer_addr].is_reachable = TRUE]
                                ELSE @]
       ELSE [h EXCEPT !.stats.sync_failures = CounterAdd(@, 1),
                      !.peers = IF peer_addr \in DOMAIN @
                                THEN [@ EXCEPT ![peer_addr].is_reachable = FALSE]
                                ELSE @]

\* The loop body of sync_with_peers after the await: the peer leaves
\* active_syncs, and the result is matched.
sync_end(g, peer_addr, ok, now) ==
    LET h == [g EXCEPT !.active_syncs = @ \ {peer_addr}]
    IN IF ok
       THEN [h EXCEPT !.stats.sync_successes = CounterAdd(@, 1),
                      !.peers = IF peer_addr \in DOMAIN @
                                THEN [@ EXCEPT ![peer_addr].last_sync = SomeInstant(now),
                                               ![peer_addr].is_reachable = TRUE]
                                ELSE @]
       ELSE [h EXCEPT !.stats.sync_failures = CounterAdd(@, 1),
                      !.peers = IF peer_addr \in DOMAIN @
                                THEN [@ EXCEPT ![peer_addr].is_reachable = FALSE]
                                ELSE @]

\* remove_peer(address)
remove_peer(g, address) ==
    [g EXCEPT !.peers = TreeRemove(@, address), !.active_syncs = @ \ {address}]

(***************************************************************************)
(* A replica running sync rounds over a changing peer table.  The round    *)
(* borrows the protocol mutably until it returns: no other method runs     *)
(* between its steps; the clock goes on.                                   *)
(***************************************************************************)
MaxClock == 3

SyncPeerAddrs == {PeerAddr, StrangerAddr}

SyncConfigs == {SyncConfig(1, m) : m \in 1..2}

\* GossipProtocol::new(config, dag)
NewProtocol(config) ==
    /\ round.phase = "idle" /\ round.now = 0 /\ round.config # config
    /\ gossip["A"] = GossipProtocolNew
    /\ round' = [round EXCEPT !.config = config]
    /\ UNCHANGED <<dag, order, last, net, cfg, gossip, sched, rcpt, runtime, sandbox, node>>

\* The monotonic clock advances.
ClockTick ==
    /\ round.now < MaxClock
    /\ round' = [round EXCEPT !.now = @ + 1]
    /\ UNCHANGED <<dag, order, last, net, cfg, gossip, sched, rcpt, runtime, sandbox, node>>

\* GossipProtocol::remove_peer called on replica r.
RemovePeer(r, address) ==
    /\ round.phase = "idle"
    /\ address \in DOMAIN gossip[r].peers
    /\ gossip' = [gossip EXCEPT ![r] = remove_peer(@, address)]
    /\ UNCHANGED <<dag, order, last, net, cfg, sched, rcpt, runtime, sandbox, node, round>>

\* The sync interval ticks: sync_with_peers collects peers_to_sync.  (Rounds
\* are started while the counters of the statistics can still count them.)
SyncRoundStart(r) ==
    /\ round.phase = "idle"
    /\ \E peers \in peers_to_sync(gossip[r], round.now, round.config) :
          /\ gossip[r].stats.sync_successes + gossip[r].stats.sync_failures + Len(peers)
                <= MaxCount
          /\ round' = [round EXCEPT !.phase = "round", !.selected = peers,
                                    !.queue = peers, !.started = <<>>]
    /\ UNCHANGED <<dag, order, last, net, cfg, gossip, sched, rcpt, runtime, sandbox, node>>

\* The loop reaches the next selected peer: it enters active_syncs and
\* sync_with_peer is awaited.
SyncBegin(r) ==
    /\ round.phase = "round" /\ round.queue # <<>>
    /\ gossip' = [gossip EXCEPT ![r] = sync_begin(@, Head(round.queue))]
    /\ round' = [round EXCEPT !.phase = "flight", !.started = Append(@, Head(round.queue))]
    /\ UNCHANGED <<dag, order, last, net, cfg, sched, rcpt, runtime, sandbox, node>>

\* sync_with_peer returns, with Err when the store could not be read; the
\* loop body runs to its end.
SyncEnd(r, storage_fails) ==
    /\ round.phase = "flight"
    /\ LET peer_addr == Head(round.queue)
           result == sync_with_peer(dag[r], gossip[r], cfg, peer_addr, storage_fails)
       IN gossip' = [gossip EXCEPT ![r] = sync_end(result.gossip, peer_addr, result.ok,
                                                     round.now)]
    /\ round' = [round EXCEPT !.phase = "round", !.queue = Tail(@)]
    /\ UNCHANGED <<dag, order, last, net, cfg, sched, rcpt, runtime, sandbox, node>>

\* The loop is over: sync_attempts grows by the size of active_syncs, and
\* sync_with_peers returns.
SyncRoundEnd(r) ==
    /\ round.phase = "round" /\ round.queue = <<>>
    /\ gossip' = [gossip EXCEPT ![r].stats.sync_attempts =
                                    CounterAdd(@, Cardinality(gossip[r].active_syncs))]
    /\ round' = [round EXCEPT !.phase = "idle"]
    /\ UNCHANGED <<dag, order, last, net, cfg, sched, rcpt, runtime, sandbox, node>>

\* The replica stores an event of its own between two rounds.
StoreBetweenRounds(r, e) ==
    /\ round.phase = "idle"
    /\ NodeAddEvent(r, e)

NextRound ==
    \/ \E config \in SyncConfigs : NewProtocol(config)
    \/ ClockTick
    \/ \E address \in SyncPeerAddrs :
          round.phase = "idle" /\ AddPeer("A", address, NodeIdOf("k1"))
    \/ \E address \in SyncPeerAddrs : RemovePeer("A", address)
    \/ \E e \in {new_event("Receipt", "c1", <<>>, 1, NodeIdOf("k2"), "k2", Now)} :
          StoreBetweenRounds("A", e)
    \/ SyncRoundStart("A")
    \/ SyncBegin("A")
    \/ \E storage_fails \in BOOLEAN : SyncEnd("A", storage_fails)
    \/ SyncRoundEnd("A")

SpecRound == Init /\ [][NextRound]_vars

\* The peers a sync round may pick at replica r: in the peer table, marked
\* reachable, not in active_syncs, and never synced or last synced more than
\* sync_interval_ms ago.
DueForSync(r, address) ==
    /\ address \in DOMAIN gossip[r].peers
    /\ gossip[r].peers[address].is_reachable
    /\ address \notin gossip[r].active_syncs
    /\ \/ gossip[r].peers[address].last_sync = NoInstant
       \/ round.now - gossip[r].peers[address].last_sync.at > round.config.sync_interval_ms

IsPrefix(s, t) == Len(s) <= Len(t) /\ \A i \in 1..Len(s) : s[i] = t[i]

\* C25: on each sync tick, sync_with_peers selects at most
\* max_concurrent_syncs peers, each of them due for a sync (known, reachable,
\* not in active_syncs, never synced or last synced more than sync_interval_ms
\* ago), none of them twice; the syncs it starts are those of the selected
\* peers, once each.
C25_SelectionOfSyncRound ==
    [][/\ (round.phase = "idle" /\ round'.phase = "round")
            => /\ Len(round'.selected) <= round.config.max_concurrent_syncs
               /\ \A i \in 1..Len(round'.selected) : DueForSync("A", round'.selected[i])
               /\ \A i, j \in 1..Len(round'.selected) :
                      round'.selected[i] = round'.selected[j] => i = j
       /\ IsPrefix(round'.started, round'.selected)]_vars

\* C25 witness: a round has synced one peer and is over, the limit being one,
\* while the other peer of the table was due as well.
C25_Witness ==
    /\ round.phase = "round" /\ round.queue = <<>>
    /\ round.config.max_concurrent_syncs = 1
    /\ Len(round.started) = 1
    /\ \E address \in DOMAIN gossip["A"].peers :
          address # round.started[1] /\ DueForSync("A", address)

\* C26: a sync that succeeds leaves the peer with last_sync = now and
\* is_reachable = true and sync_successes one higher; a sync that fails leaves
\* it with is_reachable = false, last_sync as it was, and sync_failures one
\* higher; the records of the peers the round did not select do not change.
C26_OutcomeOfSync ==
    [][/\ (round.phase = "flight" /\ round'.phase = "round")
            => LET p == Head(round.queue)
                   g == gossip["A"]
                   h == gossip'["A"]
               IN /\ DOMAIN h.peers = DOMAIN g.peers
                  /\ \/ /\ h.peers[p].last_sync = SomeInstant(round.now)
                        /\ h.peers[p].is_reachable
                        /\ h.stats.sync_successes = g.stats.sync_successes + 1
                        /\ h.stats.sync_failures = g.stats.sync_failures
                     \/ /\ ~h.peers[p].is_reachable
                        /\ h.peers[p].last_sync = g.peers[p].last_sync
                        /\ h.stats.sync_failures = g.stats.sync_failures + 1
                        /\ h.stats.sync_successes = g.stats.sync_successes
       /\ round.phase # "idle"
            => \A q \in DOMAIN gossip["A"].peers :
                  (\A i \in 1..Len(round.selected) : round.selected[i] # q)
                     => /\ q \in DOMAIN gossip'["A"].peers
                        /\ gossip'["A"].peers[q] = gossip["A"].peers[q]]_vars

\* C26 witness: one sync has succeeded and a later one with the same peer has
\* failed, another peer standing by.
C26_Witness ==
    /\ gossip["A"].stats.sync_successes = 1
    /\ gossip["A"].stats.sync_failures = 1
    /\ round.phase = "round"
    /\ \E p, q \in DOMAIN gossip["A"].peers :
          /\ p # q
          /\ ~gossip["A"].peers[p].is_reachable
          /\ gossip["A"].peers[p].last_sync.some
          /\ gossip["A"].peers[p].last_sync.at < round.now
          /\ gossip["A"].peers[q].last_sync = NoInstant

\* What active_syncs holds when the round is in phase rd: the peer whose
\* sync is in flight, nothing otherwise.
ActiveSyncsAsRoundSays(g, rd) ==
    /\ g.active_syncs = IF rd.phase = "flight" THEN {Head(rd.queue)} ELSE {}
    /\ Cardinality(g.active_syncs) <= rd.config.max_concurrent_syncs
    /\ g.active_syncs \subseteq DOMAIN g.peers

\* C27: a peer is in active_syncs exactly while a sync with it is in flight;
\* no sync is started with a peer that is in active_syncs; active_syncs holds
\* no more than max_concurrent_syncs peers and no peer absent from the peer
\* table; it is empty whenever no round is running, also after remove_peer.
C27_ActiveSyncs ==
    [][/\ ActiveSyncsAsRoundSays(gossip["A"], round)
       /\ ActiveSyncsAsRoundSays(gossip'["A"], round')
       /\ (round.phase = "round" /\ round'.phase = "flight")
            => Head(round.queue) \notin gossip["A"].active_syncs]_vars

\* C27 witness: the second sync of a round is in flight, the first peer
\* having left active_syncs.
C27_Witness ==
    /\ round.phase = "flight"
    /\ Len(round.started) = 2
    /\ gossip["A"].active_syncs = {round.started[2]}
    /\ gossip["A"].stats.sync_successes + gossip["A"].stats.sync_failures = 1


(***************************************************************************)
(* Exchanges between two replicas: one of them sends a message of any      *)
(* kind, and handle_message runs on either side until no reply is left.    *)
(***************************************************************************)
ExchangeEvents ==
    {new_event("Receipt", "c1", <<>>, s, NodeIdOf("k1"), "k1", Now) : s \in 1..MaxSeq}

ExchangeBatches ==
    {<<e>> : e \in ExchangeEvents} \cup {<<e, f>> : e \in ExchangeEvents, f \in ExchangeEvents}

\* The messages that open an exchange.
ExchangeMessages ==
    {SyncMsg(NONE, limit) : limit \in 0..MaxLimit}
    \cup {EventsMsg(events, FALSE) : events \in ExchangeBatches}
    \cup {AckMsg(1, <<>>), PingMsg(1), PongMsg(1, 2)}

\* Replica x sends a message to the other replica.  (Exchanges are opened
\* while the counters of the statistics can still count what they deliver.)
StartExchange(x, msg) ==
    /\ net = <<>>
    /\ Received("A") + Received("B") <= (IF msg.type = "Events" THEN 0 ELSE MaxBatch)
    /\ net' = <<Envelope(x, OtherReplica(x), msg)>>
    /\ UNCHANGED <<dag, order, last, cfg, gossip, sched, rcpt, runtime, sandbox, node, round>>

NextExchange ==
    \/ \E r \in Replicas : ConnectPeer(r)
    \/ \E x \in Replicas, msg \in ExchangeMessages : StartExchange(x, msg)
    \/ Deliver

\* Every message in flight is delivered.
SpecExchange == Init /\ [][NextExchange]_vars /\ WF_vars(Deliver)

\* The reply handle_message gives to a message of each kind.
ReplyKind(type) ==
    CASE type = "Sync" -> "Events"
      [] type = "Events" -> "Ack"
      [] type = "Ping" -> "Pong"
      [] OTHER -> "None"

\* C28: handle_message answers a Sync with exactly one Events, an Events with
\* exactly one Ack, a Ping with exactly one Pong, and an Ack or a Pong with no
\* message; every exchange between two nodes comes to an end with no message
\* left in flight.
C28_ExchangeTerminates ==
    /\ [][(net # <<>> /\ net[1].to \in Replicas /\ net' # net)
            => IF ReplyKind(net[1].msg.type) = "None"
               THEN net' = <<>>
               ELSE /\ Len(net') = 1
                    /\ net'[1].msg.type = ReplyKind(net[1].msg.type)
                    /\ net'[1].from = net[1].to
                    /\ net'[1].to = net[1].from]_vars
    /\ (net # <<>>) ~> (net = <<>>)

\* C28 witness: the Ack that ends an exchange opened by a Sync is in flight,
\* the Events in between having been stored by the requester.
C28_Witness ==
    /\ net # <<>>
    /\ net[1].msg.type = "Ack"
    /\ net[1].msg.count = 2
    /\ net[1].from = "A"
    /\ Stored("A") = Stored("B")
    /\ gossip["A"].peers # EmptyTree


\* The place of the event id in the listing es (0 when it is not there).
PositionOf(es, id) ==
    IF \E i \in 1..Len(es) : es[i].id = id
    THEN CHOOSE i \in 1..Len(es) : es[i].id = id
    ELSE 0

\* C29: get_events_since(None) lists every stored event by ascending
\* timestamp, and get_events_since(Some(id)) only the events of that listing
\* strictly after the event id, so that the reply to a Sync with a since
\* cursor holds no event at or before the cursor.
C29_SinceCursorHonoured ==
    [][HandleSyncStep
        => LET r == net[1].to
               since == net[1].msg.since
               all == SortByTimestamp({dag[r].events[id] : id \in DOMAIN dag[r].events})
               sent == net'[1].msg.events
           IN IF since[1] = "some"
              THEN \A i \in 1..Len(sent) :
                      PositionOf(all, sent[i].id) > PositionOf(all, since[2])
              ELSE sent = Take(all, Min(net[1].msg.limit, cfg))]_vars


\* C30: the result of validate carries a size warning for every capsule
\* whose size is above 80% of max_size_bytes and at most max_size_bytes,
\* whatever the parse, export and import checks find, and carries none for a
\* size at or below 80% of the limit (200 bytes against 5120: no warning).
C30_SizeWarningWhateverTheOutcome ==
    sandbox.phase = "validated" =>
        LET size == sandbox.wasm.size
            max_size == sandbox.validator.max_size_bytes
        IN /\ (size * 100 > max_size * 80 /\ size <= max_size)
                => sandbox.result.warnings # <<>>
           /\ size * 100 <= max_size * 80 => sandbox.result.warnings = <<>>
           /\ (size = 200 /\ max_size = 5120) => sandbox.result.warnings = <<>>


(***************************************************************************)
(* The access log of the sandbox (sandbox.rs).                             *)
(***************************************************************************)
MaxLog == 3

\* The function names asked about: the host functions, names that carry the
\* prefix of a capability without being one, and a name with no such prefix.
CalledFunctions == AllHostFunctions \cup {"json_unknown", "random_seed", "fd_write"}

\* Capability::host_function_prefix, as the capability whose prefix a name
\* starts with ("" for none).
PrefixCapability(function_name) ==
    CASE function_name \in {"hash_commit", "hash_verify"} -> "Hash"
      [] function_name \in {"json_path", "json_extract", "json_unknown"} -> "Json"
      [] function_name \in {"base64_encode", "base64_decode"} -> "Base64"
      [] function_name \in {"time_now_ms", "time_iso8601"} -> "Time"
      [] function_name \in {"random_bytes", "random_u32", "random_seed"} -> "Random"
      [] OTHER -> ""

\* guess_capability_for_function: the first capability whose prefix fits,
\* Hash when none does.
guess_capability_for_function(function_name) ==
    IF PrefixCapability(function_name) # "" THEN PrefixCapability(function_name) ELSE "Hash"

\* log_access(capability, action, allowed) at the clock reading now.
log_access(sb, capability, action, allowed, now) ==
    [sb EXCEPT !.access_log =
        Append(@, [timestamp |-> now, capability |-> capability, action |-> action,
                   allowed |-> allowed, context |-> <<>>])]

\* clear_access_log()
clear_access_log(sb) == [sb EXCEPT !.access_log = <<>>]

\* validate_host_function_call(function_name): the sandbox after, and Ok with
\* the capability or the HostFunctionNotAllowed error.
validate_host_function_call(sb, function_name, now) ==
    IF function_name \in DOMAIN sb.host_function_allowlist
    THEN [sb |-> log_access(sb, sb.host_function_allowlist[function_name],
                            <<"call:", function_name>>, TRUE, now),
          result |-> "Ok", capability |-> sb.host_function_allowlist[function_name]]
    ELSE [sb |-> log_access(sb, guess_capability_for_function(function_name),
                            <<"call:", function_name>>, FALSE, now),
          result |-> "HostFunctionNotAllowed", capability |-> ""]

\* SecuritySandbox::new(limits), for a sandbox whose log is followed.
NewAuditedSandbox(resource_limits) ==
    /\ sandbox.phase = "none"
    /\ sandbox' = [phase |-> "audit", sb |-> SecuritySandbox_new(resource_limits),
                   op |-> "new", function_name |-> "", result |-> "none"]
    /\ UNCHANGED <<dag, order, last, net, cfg, gossip, sched, rcpt, runtime, node, round>>

\* sandbox.validate_host_function_call(function_name)
ValidateHostFunctionCall(function_name, now) ==
    /\ sandbox.phase = "audit"
    /\ Len(sandbox.sb.access_log) < MaxLog
    /\ LET v == validate_host_function_call(sandbox.sb, function_name, now)
       IN sandbox' = [sandbox EXCEPT !.sb = v.sb, !.op = "validate_host_function_call",
                                     !.function_name = function_name, !.result = v.result]
    /\ UNCHANGED <<dag, order, last, net, cfg, gossip, sched, rcpt, runtime, node, round>>

\* sandbox.log_access(capability, action, allowed)
LogAccess(capability, allowed, now) ==
    /\ sandbox.phase = "audit"
    /\ Len(sandbox.sb.access_log) < MaxLog
    /\ sandbox' = [sandbox EXCEPT !.sb = log_access(@, capability, <<"test_action">>, allowed, now),
                                  !.op = "log_access", !.function_name = "",
                                  !.result = "none"]
    /\ UNCHANGED <<dag, order, last, net, cfg, gossip, sched, rcpt, runtime, node, round>>

\* sandbox.clear_access_log()
ClearAccessLog ==
    /\ sandbox.phase = "audit"
    /\ sandbox' = [sandbox EXCEPT !.sb = clear_access_log(@), !.op = "clear_access_log",
                                  !.function_name = "", !.result = "none"]
    /\ UNCHANGED <<dag, order, last, net, cfg, gossip, sched, rcpt, runtime, node, round>>

DropAuditedSandbox ==
    /\ sandbox.phase = "audit"
    /\ sandbox' = NoSandbox
    /\ UNCHANGED <<dag, order, last, net, cfg, gossip, sched, rcpt, runtime, node, round>>

NextAudit ==
    \/ \E capabilities \in {{}, {"Hash"}, {"Hash", "Json"}, Capabilities} :
          NewAuditedSandbox(ResourceLimits(capabilities, 1000))
    \/ \E function_name \in CalledFunctions, now \in 1..2 :
          ValidateHostFunctionCall(function_name, now)
    \/ \E allowed \in BOOLEAN : LogAccess("Hash", allowed, 1)
    \/ ClearAccessLog
    \/ DropAuditedSandbox

SpecAudit == Init /\ [][NextAudit]_vars

\* C31: the access log is append-only: every validate_host_function_call
\* appends exactly one entry whose allowed flag tells whether the function is
\* in the allowlist, and returns Ok exactly in that case; no operation of the
\* sandbox removes or rewrites an entry that is in the log.
C31_AuditLogAppendOnly ==
    [][(sandbox.phase = "audit" /\ sandbox'.phase = "audit")
        => LET log == sandbox.sb.access_log
               after == sandbox'.sb.access_log
               listed == sandbox'.function_name \in DOMAIN sandbox.sb.host_function_allowlist
           IN /\ IsPrefix(log, after)
              /\ sandbox'.op = "validate_host_function_call"
                   => /\ Len(after) = Len(log) + 1
                      /\ after[Len(after)].allowed = listed
                      /\ (sandbox'.result = "Ok") <=> listed]_vars


\* The imports the allowlist of the limits in hand names.
AllowlistedImports ==
    {ImportName("env", f) :
        f \in DOMAIN generate_host_function_allowlist(sandbox.limits.capabilities)}

\* C32: for every granted capability set the host functions the executor
\* links are exactly those of the sandbox allowlist, the two of each granted
\* capability and none of an ungranted one: a capsule importing an
\* allowlisted function is instantiated, and one importing a function outside
\* the allowlist is not.
C32_LinkedExactlyTheAllowlist ==
    (sandbox.phase = "capsule" /\ sandbox.executed) =>
        /\ LinkedFunctions(SecuritySandbox_new(sandbox.limits)) = AllowlistedImports
        /\ (\/ sandbox.execution.kind = "ValidationFailed"
            \/ sandbox.execution.reason = "Module instantiation failed")
              <=> (\E n \in 1..Len(sandbox.wasm.imports) :
                      sandbox.wasm.imports[n] \notin AllowlistedImports)


(***************************************************************************)
(* The packed output word of run (execution.rs): output_len in the high,   *)
(* output_ptr in the low 16 bits of an i32.                                *)
(***************************************************************************)
Word16 == 65536

\* (output_len << 16) | output_ptr computed by the capsule in i32 arithmetic,
\* for two 16-bit values: the value of the i32, bit 31 being its sign.
PackOutput(output_len, output_ptr) ==
    IF output_len >= Word16 \div 2
    THEN (output_len - Word16) * Word16 + output_ptr
    ELSE output_len * Word16 + output_ptr

\* n as usize, for an i32 n: sign extension to 64 bits, written as four
\* 16-bit limbs, the highest first.
I32AsUsize(n) ==
    IF n >= 0 THEN <<0, 0, n \div Word16, n % Word16>>
    ELSE <<Word16 - 1, Word16 - 1, (n \div Word16) % Word16, n % Word16>>

\* u > m for a usize u in limbs and a limit m below 2^31.
UsizeExceeds(u, m) ==
    \/ u[1] > 0 \/ u[2] > 0 \/ u[3] >= Word16 \div 2
    \/ u[3] * Word16 + u[4] > m

\* The usize of a value that fits 16 bits.
UsizeOf16(n) == <<0, 0, 0, n>>

\* execute_module from the result of run to the check of max_io_size:
\* output_len = (result >> 16) as usize, an arithmetic shift of the i32;
\* output_ptr = (result & 0xFFFF) as usize.
decode_output(result, max_io_size) ==
    LET output_len == I32AsUsize(result \div Word16)
        output_ptr == I32AsUsize(result % Word16)
    IN [output_len |-> output_len, output_ptr |-> output_ptr,
        error |-> IF UsizeExceeds(output_len, max_io_size) THEN "IOError" ELSE "none"]

OutputLens == {0, 1, 2, 255, 256, 511, 512, 513, 1024, 32766, 32767, 32768, 32769, 65534, 65535}
OutputPtrs == {0, 1, 1024, 32768, 65535}
MaxIoSizes == {512, MAX_IO_SIZE}

\* run returns the word packed from (output_len, output_ptr) to an executor
\* whose configuration has max_io_size, and the executor decodes it.
RunReturns(output_len, output_ptr, max_io_size) ==
    /\ sandbox.phase = "none"
    /\ sandbox' = [phase |-> "decoded", output_len |-> output_len, output_ptr |-> output_ptr,
                   max_io_size |-> max_io_size,
                   result |-> PackOutput(output_len, output_ptr),
                   decoded |-> decode_output(PackOutput(output_len, output_ptr), max_io_size)]
    /\ UNCHANGED <<dag, order, last, net, cfg, gossip, sched, rcpt, runtime, node, round>>

\* The execution is over.
DropOutput ==
    /\ sandbox.phase = "decoded"
    /\ sandbox' = NoSandbox
    /\ UNCHANGED <<dag, order, last, net, cfg, gossip, sched, rcpt, runtime, node, round>>

NextOutput ==
    \/ \E output_len \in OutputLens, output_ptr \in OutputPtrs, max_io_size \in MaxIoSizes :
          RunReturns(output_len, output_ptr, max_io_size)
    \/ DropOutput

SpecOutput == Init /\ [][NextOutput]_vars

\* C33: the packed word round-trips through the decoding of the executor:
\* for output_len and output_ptr in 0..65535 the word
\* (output_len << 16) | output_ptr decodes to the same pair, and the output is
\* rejected with IOError exactly when output_len exceeds max_io_size.
C33_PackedWordRoundTrips ==
    sandbox.phase = "decoded" =>
        /\ sandbox.decoded.output_len = UsizeOf16(sandbox.output_len)
        /\ sandbox.decoded.output_ptr = UsizeOf16(sandbox.output_ptr)
        /\ (sandbox.decoded.error = "IOError") <=> (sandbox.output_len > sandbox.max_io_size)


(***************************************************************************)
(* A node that is stopped and created again over the same db_path with the *)
(* same configured signing key.                                            *)
(***************************************************************************)
\* TenzikNode::new(config): the DAG at db_path is opened as it was left, the
\* sequence counter starts at 1.
Restart(r) ==
    /\ node[r].sequence > 1
    /\ node' = [node EXCEPT ![r] = TenzikNodeNew]
    /\ last' = [op |-> "new", phase |-> "done", to |-> r, arg |-> NONE,
                result |-> "Ok", reason |-> "none"]
    /\ UNCHANGED <<dag, order, net, cfg, gossip, sched, rcpt, runtime, sandbox, round>>

NextRestart ==
    \/ NextNode
    \/ Restart("A")

SpecRestart == Init /\ [][NextRestart]_vars

\* C34: the emissions of a node are accepted by its own DAG: at every
\* announce_self and shutdown the sequence counter of the node is above
\* sequences[node_id] of its DAG, also when the node was created over a
\* db_path holding events of its key, and after add_event stored events
\* built elsewhere under its node_id.
C34_OwnEmissionsAccepted ==
    [][(last'.op \in {"announce_self", "shutdown"} /\ node' # node)
        => LET r == last'.to
           IN /\ node[r].sequence > get_node_sequence(dag[r], NodeIdOf(KeyOf(r)))
              /\ last'.result = "Ok"]_vars


\* The node_ids of the events replica r stores.
StoredNodeIds(r) == {dag[r].events[id].node_id : id \in Stored(r)}

\* The sequence of the event of node_id that replica r inserted last.
LastInsertedSequence(r, node_id) ==
    LET is == {i \in 1..Len(order[r]) : InsertedEvent(r, i).node_id = node_id}
    IN InsertedEvent(r, CHOOSE i \in is : \A j \in is : j <= i).sequence

\* C35: after add_event calls that ran to completion, sequences[n] is present
\* exactly for the node_ids n of the stored events, and is the highest
\* sequence among the stored events of n, the sequence of the event of n that
\* was inserted last.
C35_SequencesTrackStoredEvents ==
    \A r \in Replicas :
        /\ DOMAIN dag[r].sequences = StoredNodeIds(r)
        /\ \A n \in DOMAIN dag[r].sequences :
              /\ get_node_sequence(dag[r], n) = MaxStoredSequence(dag[r], n)
              /\ get_node_sequence(dag[r], n) = LastInsertedSequence(r, n)

\* C35 witness: a replica stores two events of one node and an event of
\* another, and a further event has been refused.
C35_Witness ==
    /\ Cardinality(StoredNodeIds("A")) = 2
    /\ \E n \in StoredNodeIds("A") :
          /\ get_node_sequence(dag["A"], n) = 2
          /\ Cardinality({id \in Stored("A") : dag["A"].events[id].node_id = n}) = 2
    /\ last.phase = "done" /\ last.result = "ValidationError"


(***************************************************************************)
(* Reachability: sync rounds that fail, pings, Pongs arriving, peers added *)
(* again.                                                                  *)
(***************************************************************************)
\* ping_peers(): the peers the loop would ping, those marked reachable;
\* nothing is written.
ping_peers(g) == {address \in DOMAIN g.peers : g.peers[address].is_reachable}

\* The ping interval ticks on replica r.
PingPeers(r) ==
    /\ round.phase = "idle"
    /\ last' = [op |-> "ping_peers", phase |-> "done", to |-> r,
                arg |-> ping_peers(gossip[r]), result |-> "none", reason |-> "none"]
    /\ UNCHANGED <<dag, order, net, cfg, gossip, sched, rcpt, runtime, sandbox, node, round>>

\* add_peer called for an address the table already holds.
AddPeerAgain(r, address, public_key) ==
    /\ round.phase = "idle"
    /\ address \in DOMAIN gossip[r].peers
    /\ gossip' = [gossip EXCEPT ![r] = add_peer(@, address, public_key)]
    /\ UNCHANGED <<dag, order, last, net, cfg, sched, rcpt, runtime, sandbox, node, round>>

\* An outside node sends Pong to replica r.
PeerPong(r, from) ==
    /\ net = <<>>
    /\ net' = <<Envelope(from, r, PongMsg(1, 2))>>
    /\ UNCHANGED <<dag, order, last, cfg, gossip, sched, rcpt, runtime, sandbox, node, round>>

NextReach ==
    \/ ClockTick
    \/ \E address \in {PeerAddr} : round.phase = "idle" /\ AddPeer("A", address, NodeIdOf("k1"))
    \/ \E address \in {PeerAddr} : AddPeerAgain("A", address, NodeIdOf("k1"))
    \/ \E address \in {PeerAddr} : RemovePeer("A", address)
    \/ SyncRoundStart("A")
    \/ SyncBegin("A")
    \/ \E storage_fails \in BOOLEAN : SyncEnd("A", storage_fails)
    \/ SyncRoundEnd("A")
    \/ PingPeers("A")
    \/ \E from \in SyncPeerAddrs : PeerPong("A", from)
    \/ round.phase = "idle" /\ Deliver

SpecReach == Init /\ [][NextReach]_vars

\* handle_message runs on a Pong sent from address.
PongHandled(address) ==
    /\ net # <<>> /\ net[1].to = "A" /\ net[1].msg.type = "Pong" /\ net[1].from = address
    /\ net' = <<>>

\* C36: a peer marked unreachable is not selected by sync_with_peers and is
\* skipped by ping_peers, and stays unreachable until a Pong from its address
\* is handled or add_peer adds it again; a Pong from an address outside the
\* peer table changes nothing and creates no peer.
C36_UnreachableUntilPongOrAdd ==
    [][/\ (round.phase = "idle" /\ round'.phase = "round")
            => \A i \in 1..Len(round'.selected) :
                  gossip["A"].peers[round'.selected[i]].is_reachable
       /\ (last'.op = "ping_peers" /\ last' # last)
            => \A address \in last'.arg : gossip["A"].peers[address].is_reachable
       /\ \A address \in DOMAIN gossip["A"].peers \cap DOMAIN gossip'["A"].peers :
            (~gossip["A"].peers[address].is_reachable
                /\ gossip'["A"].peers[address].is_reachable)
              => \/ PongHandled(address)
                 \/ gossip'["A"] = add_peer(gossip["A"], address, NodeIdOf("k1"))
       /\ \A address \in SyncPeerAddrs \ DOMAIN gossip["A"].peers :
            PongHandled(address) => (gossip' = gossip /\ dag' = dag)]_vars

\* C36 witness: the peer whose only sync failed is selected again, after a
\* Pong or a second add_peer.
C36_Witness ==
    /\ round.phase = "round" /\ round.selected = <<PeerAddr>>
    /\ gossip["A"].stats.sync_failures = 1 /\ gossip["A"].stats.sync_successes = 0
    /\ gossip["A"].peers[PeerAddr].is_reachable


(***************************************************************************)
(* The counters of the statistics after sync rounds.                       *)
(***************************************************************************)
\* events_sent of the record the peer table of g holds for address, 0 when
\* it holds none.
PeerEventsSent(g, address) ==
    IF address \in DOMAIN g.peers THEN g.peers[address].events_sent ELSE 0

\* C37: when a sync round has returned, sync_attempts equals sync_successes +
\* sync_failures; every sync that ends adds one to sync_successes or to
\* sync_failures, as its result says; and a sync adds to the global
\* events_sent what it adds to the events_sent of the peers in the table.
C37_CountersConsistent ==
    [][LET g == gossip["A"]
           h == gossip'["A"]
       IN /\ (round.phase = "round" /\ round'.phase = "idle")
               => h.stats.sync_attempts = h.stats.sync_successes + h.stats.sync_failures
          /\ (round.phase = "flight" /\ round'.phase = "round")
               => /\ (h.stats.sync_successes - g.stats.sync_successes)
                        + (h.stats.sync_failures - g.stats.sync_failures) = 1
                  /\ h.stats.sync_successes >= g.stats.sync_successes
                  /\ h.stats.sync_failures >= g.stats.sync_failures
                  /\ h.stats.events_sent - g.stats.events_sent
                        = (PeerEventsSent(h, PeerAddr) - PeerEventsSent(g, PeerAddr))
                          + (PeerEventsSent(h, StrangerAddr) - PeerEventsSent(g, StrangerAddr))
      ]_vars


\* C38: for every Events message handled, count + len(rejected) of the Ack is
\* the number of events of the message, stats.events_received grows by count,
\* the events_received of the sender grows by count when the sender is in the
\* peer table, and the number of events the DAG stores grows by count.
C38_AckAccountsEachEventOnce ==
    [][HandleEventsStep =>
        LET r == net[1].to
            from == net[1].from
            events == net[1].msg.events
            ack == net'[1].msg
            g == gossip[r]
            h == gossip'[r]
        IN /\ ack.type = "Ack"
           /\ ack.count + Len(ack.rejected) = Len(events)
           /\ h.stats.events_received = g.stats.events_received + ack.count
           /\ from \in DOMAIN g.peers =>
                 h.peers[from].events_received = g.peers[from].events_received + ack.count
           /\ Cardinality(DOMAIN dag'[r].events)
                 = Cardinality(DOMAIN dag[r].events) + ack.count]_vars


(***************************************************************************)
(* The children index against the parents index.                           *)
(***************************************************************************)
\* How many positions of seq hold x.
Occurrences(seq, x) == Cardinality({n \in 1..Len(seq) : seq[n] = x})

\* The list tree t holds under key k, the empty list when it holds none.
ListAt(t, k) == IF k \in DOMAIN t THEN t[k] ELSE <<>>

\* Every id the two indexes of replica r name, as a key or in a list.
IndexedIds(r) ==
    LET d == dag[r]
    IN DOMAIN d.parents \cup DOMAIN d.children
       \cup UNION {{d.parents[c][n] : n \in 1..Len(d.parents[c])} : c \in DOMAIN d.parents}
       \cup UNION {{d.children[p][n] : n \in 1..Len(d.children[p])} : p \in DOMAIN d.children}

\* parents[e] is the parents list of the stored event e, for every stored e.
ParentsAsStored(r) ==
    /\ DOMAIN dag[r].parents = DOMAIN dag[r].events
    /\ \A id \in DOMAIN dag[r].events : dag[r].parents[id] = dag[r].events[id].parents

\* C39 as claimed: c is in children[p] iff p is in parents[c], each such c is
\* in children[p] exactly once, also when an event lists the same parent
\* twice, and parents[e] is the parents list of the stored event e.
C39_ChildrenExactInverse ==
    \A r \in Replicas :
        /\ ParentsAsStored(r)
        /\ \A p \in IndexedIds(r) : \A c \in IndexedIds(r) :
              /\ Contains(ListAt(dag[r].children, p), c)
                    <=> Contains(ListAt(dag[r].parents, c), p)
              /\ Occurrences(ListAt(dag[r].children, p), c) <= 1

====
